---- MODULE Spec2Model ----
(***************************************************************************)
(* Verification model of the HS-code classifier (fullimpl.py) and of the   *)
(* Flask session API that wraps it (backend_api.py).                       *)
(*                                                                         *)
(* Conventions                                                             *)
(*   - similarity scores are fixed-point numbers in hundredths: the float  *)
(*     0.85 is the integer 85, and every comparison of the source keeps    *)
(*     its strictness (> stays >, >= stays >=);                            *)
(*   - Python strings that the code inspects are sequences of one-letter   *)
(*     strings, so that substring tests, split() and slicing are computed  *)
(*     the way the code computes them;                                     *)
(*   - the embedding model and the LLM are black boxes: their outputs are  *)
(*     chosen nondeterministically from small sets.                        *)
(***************************************************************************)
EXTENDS Integers, Sequences, FiniteSets, TLC

VARIABLES
    \* ---- one classification session (ConversationState + classify_product locals)
    pc,                   \* position inside classify_product / the driver
    product_description,  \* ConversationState.product_description
    iteration,            \* ConversationState.iteration
    qa_history,           \* ConversationState.qa_history
    current_candidates,   \* ConversationState.current_candidates
    prev_candidates,      \* local prev_candidates of classify_product / submit_answer
    converged,            \* last value returned by check_convergence ("unset" before)
    claude_response,      \* last value returned by generate_question ("none" before)
    result,               \* value returned by classify_product ("running" before)
    generated,            \* history: questions this session's generator produced
    turn_log,             \* history: what happened in the current loop turn
    \* ---- taxonomy index (HSCodeSemanticSearch.tree_data / leaf_nodes)
    rows,                 \* the input table: sequence of levels, one per row
    next_row,             \* loop position of _build_tree
    stack,                \* local stack of _build_tree (row numbers)
    parent,               \* HSCodeNode.parent per row (0 = None)
    children,             \* HSCodeNode.children per row
    tree_data,            \* self.tree_data (roots)
    leaf_nodes,           \* self.leaf_nodes
    tree_pc,              \* "build", "extract", "loaded"
    \* ---- backend session API (backend_api.py), one entry of active_sessions
    demo_mode,            \* ClassificationSession.demo_mode
    reply,                \* the last HTTP response: endpoint and status code
    \* ---- two request threads inside HSCodeSemanticSearch.search_hs_codes
    _current_qa_history,  \* self._current_qa_history, shared by all callers
    th_pc,                \* per thread: position inside search_hs_codes
    th_qa_history,        \* per thread: the qa_history argument
    th_i,                 \* per thread: loop index i over leaf_nodes
    th_similarities,      \* per thread: local semantic_similarities
    th_results,           \* per thread: the returned list
    \* ---- embedding cache (HSCodeSemanticSearch.compute_embeddings)
    files,                \* the file system: path -> pickled matrix
    embeddings,           \* self.embeddings
    embeddings_file,      \* self.embeddings_file
    hash_seed,            \* the process's string-hash seed
    emb_status,           \* outcome of the last compute_embeddings call
    model_loaded,         \* self.model is not None
    emb_call,             \* history: arguments and effects of the last compute_embeddings call
    \* ---- one search_hs_codes call seen as a function of its inputs
    sc_in,                \* scoring: query, qa_history, base similarity and the two leaves
    sc_out,               \* scoring: boost, penalties and final score per leaf, returned list
    flt_in,               \* filtering: the adjusted similarity array and the base threshold
    flt_out,              \* filtering: effective threshold, sorted list, returned list
    \* ---- classify_product and a backend session driven by the same inputs
    ref_cls,              \* the ConversationState and locals of the classify_product run
    ref_be                \* the ConversationState of the session and its last reported converged

clsVars == <<pc, product_description, iteration, qa_history, current_candidates,
             prev_candidates, converged, claude_response, result, generated, turn_log>>
treeVars == <<rows, next_row, stack, parent, children, tree_data, leaf_nodes, tree_pc>>
beVars == <<demo_mode, reply>>
raceVars == <<_current_qa_history, th_pc, th_qa_history, th_i, th_similarities, th_results>>
embVars == <<files, embeddings, embeddings_file, hash_seed, emb_status, model_loaded, emb_call>>
searchVars == <<sc_in, sc_out, flt_in, flt_out>>
refVars == <<ref_cls, ref_be>>
vars == <<clsVars, treeVars, beVars, raceVars, embVars, searchVars, refVars>>

(***************************************************************************)
(* Python str operations, on sequences of one-character strings            *)
(***************************************************************************)
LowerLetters == <<"a", "b", "c", "d", "e", "f", "g", "h", "i", "j", "k", "l", "m", "n", "o", "p", "q", "r", "s", "t", "u", "v", "w", "x", "y", "z">>
UpperLetters == <<"A", "B", "C", "D", "E", "F", "G", "H", "I", "J", "K", "L", "M", "N", "O", "P", "Q", "R", "S", "T", "U", "V", "W", "X", "Y", "Z">>
Digits == {"0", "1", "2", "3", "4", "5", "6", "7", "8", "9"}
WordChars == {LowerLetters[i] : i \in 1..26} \cup {UpperLetters[i] : i \in 1..26} \cup Digits \cup {"_"}
Whitespace == {" "}

\* str.lower() of one character
LowerChar(c) ==
    IF \E i \in 1..26 : UpperLetters[i] = c
    THEN LowerLetters[CHOOSE i \in 1..26 : UpperLetters[i] = c]
    ELSE c

\* s.lower()
Lower(s) == [i \in 1..Len(s) |-> LowerChar(s[i])]

\* the positions where a maximal run of non-whitespace characters starts
WordStarts(s) ==
    {i \in 1..Len(s) : s[i] \notin Whitespace /\ (i = 1 \/ s[i - 1] \in Whitespace)}

\* the last position of the run that starts at i
WordEnd(s, i) ==
    CHOOSE j \in i..Len(s) :
        /\ \A k \in i..j : s[k] \notin Whitespace
        /\ (j = Len(s) \/ s[j + 1] \in Whitespace)

\* s.split(): the maximal runs of non-whitespace characters, in order
Split(s) ==
    LET starts == WordStarts(s)
        nth(k) == CHOOSE i \in starts : Cardinality({j \in starts : j < i}) = k - 1
    IN [k \in 1..Cardinality(starts) |-> SubSeq(s, nth(k), WordEnd(s, nth(k)))]

RECURSIVE Join(_, _)
\* sep.join(words)
Join(words, sep) ==
    IF words = <<>> THEN <<>>
    ELSE IF Len(words) = 1 THEN words[1]
    ELSE words[1] \o sep \o Join(Tail(words), sep)

RECURSIVE LStrip(_, _)
LStrip(s, chars) ==
    IF s # <<>> /\ s[1] \in chars THEN LStrip(Tail(s), chars) ELSE s

RECURSIVE RStrip(_, _)
RStrip(s, chars) ==
    IF s # <<>> /\ s[Len(s)] \in chars THEN RStrip(SubSeq(s, 1, Len(s) - 1), chars) ELSE s

\* s.strip(chars)
Strip(s, chars) == RStrip(LStrip(s, chars), chars)

\* s.replace(c, '') for every character c of chars
RemoveChars(s, chars) == SelectSeq(s, LAMBDA c : c \notin chars)

\* the elements of a sequence, as a set
Range(seq) == {seq[i] : i \in 1..Len(seq)}


\* a in b  (Python substring test)
IsSubstr(a, b) ==
    \E i \in 0..(Len(b) - Len(a)) : SubSeq(b, i + 1, i + Len(a)) = a

\* s[:n]
Prefix(s, n) == SubSeq(s, 1, IF n < Len(s) THEN n ELSE Len(s))

Min(a, b) == IF a < b THEN a ELSE b
Max(a, b) == IF a > b THEN a ELSE b

(***************************************************************************)
(* HSCode candidates                                                       *)
(***************************************************************************)
HSCode(c, d, s) == [code |-> c, description |-> d, similarity_score |-> s]

\* [c.code for c in candidates[:3]]
Top3Codes(cands) == [i \in 1..Min(3, Len(cands)) |-> cands[i].code]

(***************************************************************************)
(* HSCodeClassifier.check_convergence                                      *)
(***************************************************************************)
max_iterations == 6

SingleHighConfidence(cands) ==
    Len(cands) = 1 /\ cands[1].similarity_score > 90

\* mutant: the top-score test admits the boundary value 0.85
TwoWithClearWinner_inclusive(cands) ==
    /\ Len(cands) = 2
    /\ cands[1].similarity_score >= 85
    /\ cands[1].similarity_score - cands[2].similarity_score > 20

TwoWithClearWinner(cands) ==
    /\ Len(cands) = 2
    /\ cands[1].similarity_score > 85
    /\ cands[1].similarity_score - cands[2].similarity_score > 20

\* mutant: two Q&A entries are taken as enough history
StableTop3_two_qa(cands, prev, qa) ==
    /\ Len(prev) > 0
    /\ Len(cands) >= 3
    /\ Len(prev) >= 3
    /\ Len(qa) >= 2
    /\ [i \in 1..3 |-> cands[i].code] = [i \in 1..3 |-> prev[i].code]
    /\ cands[1].similarity_score > 75

StableTop3(cands, prev, qa) ==
    /\ Len(prev) > 0
    /\ Len(cands) >= 3
    /\ Len(prev) >= 3
    /\ Len(qa) >= 3
    /\ Top3Codes(cands) = Top3Codes(prev)
    /\ cands[1].similarity_score > 75

\* mutant: the iteration cut-off is off by one
check_convergence_late_cutoff(iter, cands, prev, qa) ==
    IF iter > max_iterations THEN TRUE
    ELSE IF Len(cands) <= 2 /\ (SingleHighConfidence(cands) \/ TwoWithClearWinner(cands)) THEN TRUE
    ELSE IF StableTop3(cands, prev, qa) THEN TRUE
    ELSE FALSE

check_convergence(iter, cands, prev, qa) ==
    IF iter >= max_iterations THEN TRUE
    ELSE IF Len(cands) <= 2 /\ (SingleHighConfidence(cands) \/ TwoWithClearWinner(cands)) THEN TRUE
    ELSE IF StableTop3(cands, prev, qa) THEN TRUE
    ELSE IF iter < 2 THEN FALSE
    ELSE FALSE

(***************************************************************************)
(* Vocabulary: the strings the modelled runs use                           *)
(***************************************************************************)
Str_OLED_monitor == <<"O","L","E","D"," ","m","o","n","i","t","o","r">>
Str_fresh_apples == <<"f","r","e","s","h"," ","a","p","p","l","e","s">>
Str_monitors == <<"M","o","n","i","t","o","r","s"," ","a","n","d"," ","p","r","o","j","e","c","t","o","r","s">>
Str_computers == <<"P","o","r","t","a","b","l","e"," ","c","o","m","p","u","t","e","r","s">>
Str_juice == <<"O","r","a","n","g","e"," ","j","u","i","c","e">>
Str_apples == <<"A","p","p","l","e","s",","," ","f","r","e","s","h">>
Str_dried == <<"D","r","i","e","d"," ","f","r","u","i","t">>
Str_other == <<"O","t","h","e","r">>
Code_8528 == <<"8","5","2","8"," ","5","2"," ","1","0">>
Code_8471 == <<"8","4","7","1"," ","3","0"," ","0","0">>
Code_2009 == <<"2","0","0","9"," ","1","2"," ","0","0">>
Code_0808 == <<"0","8","0","8"," ","1","0"," ","8","0">>
Code_0813 == <<"0","8","1","3"," ","3","0"," ","0","0">>

\* what a leaf with this code is called in the modelled taxonomy
DescriptionOf(code) ==
    CASE code = Code_8528 -> Str_monitors
      [] code = Code_8471 -> Str_computers
      [] code = Code_2009 -> Str_juice
      [] code = Code_0808 -> Str_apples
      [] code = Code_0813 -> Str_dried
      [] OTHER -> Str_other

Cand(code, score) == HSCode(code, DescriptionOf(code), score)

(***************************************************************************)
(* ClaudeQuestionGenerator: relevance pre-check                            *)
(***************************************************************************)
\* product_indicators, in dictionary order: <<keywords, chapters>> per category
product_indicators ==
    <<
       [keywords |-> {<<"j","u","i","c","e">>, <<"d","r","i","n","k">>, <<"b","e","v","e","r","a","g","e">>, <<"l","e","m","o","n","a","d","e">>, <<"s","o","d","a">>, <<"w","a","t","e","r">>, <<"c","o","f","f","e","e">>, <<"t","e","a">>, <<"m","i","l","k">>, <<"b","e","e","r">>, <<"w","i","n","e">>, <<"a","l","c","o","h","o","l">>},
        chapters |-> {<<"2","0">>, <<"2","1">>, <<"2","2">>, <<"0","4">>, <<"1","9">>}],
      
       [keywords |-> {<<"p","h","o","n","e">>, <<"c","o","m","p","u","t","e","r">>, <<"d","e","v","i","c","e">>, <<"e","l","e","c","t","r","o","n","i","c">>, <<"m","o","n","i","t","o","r">>, <<"s","c","r","e","e","n">>, <<"d","i","s","p","l","a","y">>, <<"o","l","e","d">>, <<"l","c","d">>, <<"l","e","d">>, <<"t","e","l","e","v","i","s","i","o","n">>, <<"t","v">>, <<"r","a","d","i","o">>, <<"c","a","m","e","r","a">>},
        chapters |-> {<<"8","5">>, <<"9","0">>, <<"8","4">>, <<"9","5">>}],
      
       [keywords |-> {<<"s","h","i","r","t">>, <<"p","a","n","t","s">>, <<"c","l","o","t","h","i","n","g">>, <<"a","p","p","a","r","e","l">>, <<"f","a","b","r","i","c">>, <<"t","e","x","t","i","l","e">>, <<"c","o","t","t","o","n">>, <<"w","o","o","l">>, <<"g","a","r","m","e","n","t">>},
        chapters |-> {<<"6","1">>, <<"6","2">>, <<"6","3">>, <<"5","0">>, <<"5","1">>, <<"5","2">>, <<"5","3">>, <<"5","4">>, <<"5","5">>}],
      
       [keywords |-> {<<"c","h","e","m","i","c","a","l">>, <<"a","c","i","d">>, <<"c","o","m","p","o","u","n","d">>, <<"p","h","a","r","m","a","c","e","u","t","i","c","a","l">>, <<"m","e","d","i","c","i","n","e">>, <<"d","r","u","g">>},
        chapters |-> {<<"2","8">>, <<"2","9">>, <<"3","0">>, <<"3","8">>}],
      
       [keywords |-> {<<"m","a","c","h","i","n","e">>, <<"e","n","g","i","n","e">>, <<"m","o","t","o","r">>, <<"p","u","m","p">>, <<"g","e","n","e","r","a","t","o","r">>, <<"c","o","m","p","r","e","s","s","o","r">>},
        chapters |-> {<<"8","4">>, <<"8","5">>}],
      
       [keywords |-> {<<"s","t","e","e","l">>, <<"i","r","o","n">>, <<"a","l","u","m","i","n","u","m">>, <<"c","o","p","p","e","r">>, <<"m","e","t","a","l">>, <<"a","l","l","o","y">>},
        chapters |-> {<<"7","2">>, <<"7","3">>, <<"7","4">>, <<"7","5">>, <<"7","6">>, <<"7","8">>, <<"7","9">>}],
      
       [keywords |-> {<<"c","a","r">>, <<"t","r","u","c","k">>, <<"v","e","h","i","c","l","e">>, <<"a","u","t","o","m","o","b","i","l","e">>, <<"m","o","t","o","r","c","y","c","l","e">>, <<"b","i","c","y","c","l","e">>},
        chapters |-> {<<"8","7">>, <<"8","9">>}],
      
       [keywords |-> {<<"c","h","a","i","r">>, <<"t","a","b","l","e">>, <<"f","u","r","n","i","t","u","r","e">>, <<"b","e","d">>, <<"d","e","s","k">>, <<"c","a","b","i","n","e","t">>},
        chapters |-> {<<"9","4">>}],
      
       [keywords |-> {<<"b","o","o","k">>, <<"p","a","p","e","r">>, <<"d","o","c","u","m","e","n","t">>, <<"m","a","g","a","z","i","n","e">>, <<"n","e","w","s","p","a","p","e","r">>},
        chapters |-> {<<"4","8">>, <<"4","9">>}],
      
       [keywords |-> {<<"t","o","y">>, <<"g","a","m","e">>, <<"p","u","z","z","l","e">>, <<"d","o","l","l">>, <<"b","a","l","l">>},
        chapters |-> {<<"9","5">>}]>>


\* the first category, in dictionary order, with a keyword that occurs in the
\* description; 0 when no category matches (expected_chapters stays empty)
MatchedCategory(product_lower) ==
    IF \E k \in 1..Len(product_indicators) :
           \E kw \in product_indicators[k].keywords : IsSubstr(kw, product_lower)
    THEN CHOOSE k \in 1..Len(product_indicators) :
           /\ \E kw \in product_indicators[k].keywords : IsSubstr(kw, product_lower)
           /\ \A j \in 1..(k - 1) :
                 ~\E kw \in product_indicators[j].keywords : IsSubstr(kw, product_lower)
    ELSE 0

\* candidate.code[:2] if len(candidate.code) >= 2 else ""
candidate_chapter(cand) == IF Len(cand.code) >= 2 THEN Prefix(cand.code, 2) ELSE <<>>

semantic_stop_words == {<<"t","e","s","t">>, <<"h","e","l","l","o">>, <<"w","o","r","l","d">>, <<"e","x","a","m","p","l","e">>, <<"d","e","m","o">>}

\* product_words of _semantic_relevance_check
product_words(product_lower) ==
    {w \in Range(Split(product_lower)) : Len(w) > 3 /\ w \notin semantic_stop_words}

\* word_matches > 0 for one candidate
HasWordMatch(pwords, cand) ==
    LET candidate_desc_lower == Lower(cand.description)
        candidate_words == Range(Split(candidate_desc_lower))
    IN \E pw \in pwords :
          \/ IsSubstr(pw, candidate_desc_lower)
          \/ \E cw \in candidate_words :
                Len(cw) > 3 /\ (IsSubstr(pw, cw) \/ IsSubstr(cw, pw))

\* _semantic_relevance_check: relevant_count / total_checked >= 0.3
semantic_relevance_check(product_lower, candidates) ==
    LET pwords == product_words(product_lower)
        total_checked == Min(5, Len(candidates))
        relevant_count ==
            Cardinality({i \in 1..total_checked :
                            \/ HasWordMatch(pwords, candidates[i])
                            \/ candidates[i].similarity_score > 70})
    IN IF pwords = {} THEN TRUE
       ELSE 10 * relevant_count >= 3 * total_checked

\* _candidates_seem_relevant: relevant_candidates / total_checked >= 0.4
candidates_seem_relevant(description, candidates) ==
    IF candidates = <<>> THEN FALSE
    ELSE LET product_lower == Lower(description)
             k == MatchedCategory(product_lower)
             total_checked == Min(5, Len(candidates))
         IN IF k # 0
            THEN LET relevant_candidates ==
                         Cardinality({i \in 1..total_checked :
                             candidate_chapter(candidates[i]) \in product_indicators[k].chapters})
                 IN 10 * relevant_candidates >= 4 * total_checked
            ELSE semantic_relevance_check(product_lower, candidates)

(***************************************************************************)
(* ClaudeQuestionGenerator: generate_smart_query, generate_question        *)
(***************************************************************************)
Str_space == <<" ">>
junk_words == {<<"t","e","s","t">>, <<"h","e","l","l","o">>, <<"w","o","r","l","d">>, <<"e","x","a","m","p","l","e">>, <<"d","e","m","o">>, <<"r","a","n","d","o","m">>, <<"s","t","u","f","f">>, <<"t","h","i","n","g">>, <<"j","i","b","b","e","r","i","s","h">>, <<"g","i","b","b","e","r","i","s","h">>}

\* _fallback_query_generation
fallback_query_generation(original) ==
    LET words == SelectSeq(Split(Lower(original)), LAMBDA w : w \notin junk_words /\ Len(w) > 2)
    IN IF words # <<>> THEN Join(words, Str_space) ELSE original

\* queries the LLM may return (already clean: _validate_and_clean_query keeps them)
Query_display == <<"o","l","e","d"," ","d","i","s","p","l","a","y"," ","m","o","n","i","t","o","r">>
LLMQueries == {Query_display}

\* the outcome of client.messages.create inside generate_smart_query: a query
\* text, or an exception
LLMQueryRaises == <<"<exception>">>
QueryReplies == LLMQueries \cup {LLMQueryRaises}

\* generate_smart_query, lines 613-638: the cleaned llm_reply; except Exception: the
\* rule-based fallback
generate_smart_query(llm_reply, description) ==
    IF llm_reply = LLMQueryRaises THEN fallback_query_generation(description) ELSE llm_reply

SmartQueryOutcomes(description) == {generate_smart_query(r, description) : r \in QueryReplies}

question_stop_words == {<<"w","h","a","t">>, <<"h","o","w">>, <<"w","h","i","c","h">>, <<"w","h","e","r","e">>, <<"w","h","e","n">>, <<"w","h","y">>, <<"w","h","o">>, <<"i","s">>, <<"a","r","e">>, <<"d","o">>, <<"d","o","e","s">>, <<"c","a","n">>, <<"c","o","u","l","d">>, <<"w","o","u","l","d">>, <<"s","h","o","u","l","d">>, <<"t","h","e">>, <<"a">>, <<"a","n">>, <<"a","n","d">>, <<"o","r">>, <<"b","u","t">>, <<"i","n">>, <<"o","n">>, <<"a","t">>, <<"t","o">>, <<"f","o","r">>, <<"o","f">>, <<"w","i","t","h">>, <<"b","y">>, <<"y","o","u","r">>, <<"t","h","i","s">>, <<"t","h","a","t">>}
question_punctuation == {".", ",", "?", "!", ":", ";"}

\* extract_key_terms of _questions_are_similar
extract_key_terms(question) ==
    {w \in {Strip(x, question_punctuation) : x \in Range(Split(Lower(question)))} :
        Len(w) > 2 /\ w \notin question_stop_words}

\* _questions_are_similar: overlap / min_terms > 0.5
questions_are_similar(question1, question2) ==
    LET terms1 == extract_key_terms(question1)
        terms2 == extract_key_terms(question2)
        overlap == Cardinality(terms1 \cap terms2)
        min_terms == Min(Cardinality(terms1), Cardinality(terms2))
    IN IF terms1 = {} \/ terms2 = {} THEN FALSE
       ELSE 2 * overlap > min_terms

Response(t, c) == [type |-> t, content |-> c]

Q_dried == <<"I","s"," ","t","h","i","s"," ","p","r","o","d","u","c","t"," ","d","r","i","e","d","?">>
Q_screen == <<"W","h","a","t"," ","s","i","z","e"," ","i","s"," ","t","h","e"," ","s","c","r","e","e","n","?">>
Q_exception_fallback == <<"W","h","a","t"," ","i","s"," ","t","h","e"," ","p","r","i","m","a","r","y"," ","i","n","t","e","n","d","e","d"," ","u","s","e"," ","o","r"," ","a","p","p","l","i","c","a","t","i","o","n"," ","o","f"," ","y","o","u","r"," ","p","r","o","d","u","c","t","?">>
Q_probe_head == <<"C","a","n"," ","y","o","u"," ","p","r","o","v","i","d","e"," ","a","n","y"," ","a","d","d","i","t","i","o","n","a","l"," ","t","e","c","h","n","i","c","a","l"," ","s","p","e","c","i","f","i","c","a","t","i","o","n","s"," ","o","r"," ","d","e","t","a","i","l","s"," ","a","b","o","u","t"," ","y","o","u","r"," ">>
Q_probe_tail == <<" ","t","h","a","t"," ","m","i","g","h","t"," ","h","e","l","p"," ","w","i","t","h"," ","c","l","a","s","s","i","f","i","c","a","t","i","o","n","?">>
Conclusion_with_code == <<"T","h","e"," ","c","o","r","r","e","c","t"," ","H","S"," ","c","o","d","e"," ","i","s"," ","8","5","2","8",".","5","2",".","1","0",".">>
Conclusion_without_code == <<"T","h","i","s"," ","i","s"," ","c","l","e","a","r","l","y"," ","a"," ","m","o","n","i","t","o","r",".">>

\* the fallback probe of the duplicate-question guard
Q_probe(description) == Q_probe_head \o description \o Q_probe_tail

\* what _parse_structured_response may hand back for an LLM llm_reply
ParsedResults ==
    {Response("question", Q_dried), Response("multiple_choice", Q_screen),
     Response("conclusion", Conclusion_with_code), Response("conclusion", Conclusion_without_code)}

\* every question text a modelled run can meet, and the duplicate test on each
\* pair of them, evaluated once (new_question and existing_question are lowered
\* by generate_question before the test)
KnownDescriptions == {Str_OLED_monitor, Str_fresh_apples}
KnownQuestions ==
    {Q_dried, Q_screen, Q_exception_fallback} \cup {Q_probe(d) : d \in KnownDescriptions}
SimilarQuestions ==
    {pair \in KnownQuestions \X KnownQuestions :
        questions_are_similar(Lower(pair[1]), Lower(pair[2]))}
is_duplicate(new_question, existing_question) ==
    IF new_question \in KnownQuestions /\ existing_question \in KnownQuestions
    THEN <<new_question, existing_question>> \in SimilarQuestions
    ELSE questions_are_similar(Lower(new_question), Lower(existing_question))

\* the duplicate-question guard of generate_question
duplicate_guard(parsed_result, description, qa) ==
    IF /\ parsed_result.type \in {"question", "multiple_choice"}
       /\ \E i \in 1..Len(qa) : is_duplicate(parsed_result.content, qa[i].question)
    THEN Response("question", Q_probe(description))
    ELSE parsed_result

\* the outcome of client.messages.create inside generate_question: a llm_reply
\* (parsed), or an exception
LLMRaises == Response("raised", <<>>)
QuestionReplies == ParsedResults \cup {LLMRaises}

\* mutant: generate_question has no except clause, the exception leaves the method
generate_question_propagates(llm_reply, description, qa) ==
    IF llm_reply = LLMRaises THEN LLMRaises ELSE duplicate_guard(llm_reply, description, qa)

\* generate_question, lines 1027-1068: the guarded llm_reply; except Exception: the
\* fixed generic question
generate_question(llm_reply, description, qa) ==
    IF llm_reply = LLMRaises
    THEN Response("question", Q_exception_fallback)
    ELSE duplicate_guard(llm_reply, description, qa)

GenerateQuestionOutcomes(description, qa) ==
    {generate_question(r, description, qa) : r \in QuestionReplies}

(***************************************************************************)
(* The conclusion's code: re.search(r'\b\d{4}\.?\d{2}\.?\d{2}\b', text)    *)
(***************************************************************************)
IsDigitAt(s, i) == i >= 1 /\ i <= Len(s) /\ s[i] \in Digits
IsWordAt(s, i) == i >= 1 /\ i <= Len(s) /\ s[i] \in WordChars
DigitsAt(s, i, n) == \A j \in i..(i + n - 1) : IsDigitAt(s, j)

\* the end position of the match that starts at i, 0 when there is none
CodeMatchEnd(s, i) ==
    IF ~(DigitsAt(s, i, 4) /\ ~IsWordAt(s, i - 1)) THEN 0
    ELSE LET a == IF i + 4 <= Len(s) /\ s[i + 4] = "." THEN i + 5 ELSE i + 4
         IN IF ~DigitsAt(s, a, 2) THEN 0
            ELSE LET b == IF a + 2 <= Len(s) /\ s[a + 2] = "." THEN a + 3 ELSE a + 2
                 IN IF DigitsAt(s, b, 2) /\ ~IsWordAt(s, b + 2) THEN b + 1 ELSE 0

\* code_match.group().replace('.', ''), or <<>> when the pattern does not occur
suggested_code(text) ==
    IF \E i \in 1..Len(text) : CodeMatchEnd(text, i) # 0
    THEN LET i == CHOOSE k \in 1..Len(text) :
                     CodeMatchEnd(text, k) # 0 /\ \A j \in 1..(k - 1) : CodeMatchEnd(text, j) = 0
         IN RemoveChars(SubSeq(text, i, CodeMatchEnd(text, i)), {"."})
    ELSE <<>>

\* the candidate a conclusion returns: the first one whose code matches, else the top one
conclusion_candidate(text, candidates) ==
    LET code == suggested_code(text)
        matches == {i \in 1..Len(candidates) :
                       RemoveChars(candidates[i].code, {" ", "."}) = RemoveChars(code, {" ", "."})}
    IN IF code # <<>> /\ matches # {}
       THEN candidates[CHOOSE i \in matches : \A j \in matches : i <= j]
       ELSE candidates[1]

(***************************************************************************)
(* Values of the session bookkeeping                                       *)
(***************************************************************************)
NotComputed == [computed |-> FALSE]
NotStarted == [started |-> FALSE]
NoHistory == [set |-> FALSE, qa |-> <<>>]
NoEmbeddings == [loaded |-> FALSE, rows |-> <<>>]
NoFile == [name |-> "", leaves |-> <<>>, seed |-> 0]
EmbCall(f, e, c, enc, w) ==
    [force_recompute |-> f, embedding_file |-> e, use_cached_only |-> c, encoded |-> enc, wrote |-> w]
NoCall == EmbCall(FALSE, NoFile, FALSE, FALSE, FALSE)
NoReply == [endpoint |-> "none", code |-> 0]
NoResponse == [type |-> "none", content |-> <<>>]
Running == [status |-> "running", value |-> <<>>]
ReturnNone == [status |-> "None", value |-> <<>>]
ReturnCandidate(c) == [status |-> "candidate", value |-> <<c>>]
\* per-turn history: calls of generate_smart_query, search_hs_codes,
\* check_convergence, generate_question and appended Q&A entries
NewTurn == [synth |-> 0, searches |-> 0, conv_checks |-> 0, questions |-> 0, answers |-> 0,
            queries |-> <<>>, question_raised |-> FALSE, first |-> <<>>, retry |-> <<>>]
\* one generate_smart_query call: whether the LLM call raised, and the query returned
QueryLog(llm_reply, query) == [raised |-> llm_reply = LLMQueryRaises, query |-> query]
ReturnException == [status |-> "exception", value |-> <<>>]

(***************************************************************************)
(* Idle values: a specification that does not exercise a component keeps   *)
(* that component's variables at these values.                             *)
(***************************************************************************)
ClsIdle ==
    /\ pc = "idle"
    /\ product_description = <<>>
    /\ iteration = 0
    /\ qa_history = <<>>
    /\ current_candidates = <<>>
    /\ prev_candidates = <<>>
    /\ converged = "unset"
    /\ claude_response = NoResponse
    /\ result = Running
    /\ generated = {}
    /\ turn_log = NewTurn

TreeIdle ==
    /\ rows = <<>>
    /\ next_row = 1
    /\ stack = <<>>
    /\ parent = <<>>
    /\ children = <<>>
    /\ tree_data = <<>>
    /\ leaf_nodes = <<>>
    /\ tree_pc = "idle"

BackendIdle ==
    /\ demo_mode = FALSE
    /\ reply = NoReply

RaceIdle ==
    /\ _current_qa_history = NoHistory
    /\ th_pc = <<>>
    /\ th_qa_history = <<>>
    /\ th_i = <<>>
    /\ th_similarities = <<>>
    /\ th_results = <<>>

SearchIdle ==
    /\ sc_in = <<>>
    /\ sc_out = NotComputed
    /\ flt_in = <<>>
    /\ flt_out = NotComputed

RefIdle ==
    /\ ref_cls = NotStarted
    /\ ref_be = NotStarted

EmbIdle ==
    /\ files = <<>>
    /\ embeddings = NoEmbeddings
    /\ embeddings_file = NoFile
    /\ hash_seed = 0
    /\ emb_status = "none"
    /\ model_loaded = FALSE
    /\ emb_call = NoCall

(***************************************************************************)
(* SpecConv: check_convergence as a function of its arguments.             *)
(* Init draws a ConversationState and a prev_candidates list; candidate    *)
(* lists are what search_hs_codes returns: sorted by descending score,     *)
(* every score at least similarity_threshold (60).                         *)
(***************************************************************************)
MaxConvQA == 4

ConvCodes == {Code_8528, Code_8471, Code_2009, Code_0808}

ConvSingles == {<<Cand(Code_8528, s)>> : s \in {60, 90, 91, 95}}

ConvPairs ==
    {<<Cand(Code_8528, s1), Cand(Code_8471, s2)>> :
        s1 \in {83, 85, 86, 91}, s2 \in {60, 65, 66, 70, 71, 80}}

ConvTriples ==
    {<<Cand(a, s), Cand(b, 70), Cand(c, 65)>> :
        s \in {75, 76}, a \in ConvCodes, b \in ConvCodes, c \in ConvCodes}
    \ {t \in {<<Cand(a, s), Cand(b, 70), Cand(c, 65)>> :
                s \in {75, 76}, a \in ConvCodes, b \in ConvCodes, c \in ConvCodes} :
          t[1].code = t[2].code \/ t[1].code = t[3].code \/ t[2].code = t[3].code}

ConvQuads ==
    {t \o <<Cand(Code_0813, 60)>> : t \in {u \in ConvTriples : u[1].similarity_score = 76}}

ConvCurrent == {<<>>} \cup ConvSingles \cup ConvPairs \cup ConvTriples \cup ConvQuads

ConvPrev ==
    {<<>>, <<Cand(Code_8528, 91), Cand(Code_8471, 70)>>}
    \cup {t \in ConvTriples : t[1].similarity_score = 76}

QA_filler == [question |-> <<"q">>, answer |-> <<"a">>]

ConvInit ==
    /\ pc = "conv_call"
    /\ product_description = Str_OLED_monitor
    /\ iteration \in 0..(max_iterations + 1)
    /\ qa_history \in {[i \in 1..n |-> QA_filler] : n \in 0..MaxConvQA}
    /\ current_candidates \in ConvCurrent
    /\ prev_candidates \in ConvPrev
    /\ converged = "unset"
    /\ claude_response = NoResponse
    /\ result = Running
    /\ generated = {}
    /\ turn_log = NewTurn
    /\ TreeIdle
    /\ BackendIdle
    /\ RaceIdle
    /\ EmbIdle
    /\ SearchIdle
    /\ RefIdle

\* one call of check_convergence(state, prev_candidates)
ConvCall ==
    /\ pc = "conv_call"
    /\ converged' = check_convergence(iteration, current_candidates, prev_candidates, qa_history)
    /\ pc' = "conv_returned"
    /\ UNCHANGED <<product_description, iteration, qa_history, current_candidates,
                   prev_candidates, claude_response, result, generated, turn_log>>
    /\ UNCHANGED <<treeVars, beVars, raceVars, embVars, searchVars, refVars>>

ConvNext == ConvCall

SpecConv == ConvInit /\ [][ConvNext]_vars

(***************************************************************************)
(* SpecClassify: HSCodeClassifier.classify_product, one session.           *)
(* search_hs_codes is a black box here: each call returns one of           *)
(* SearchResults (sorted, every score >= similarity_threshold).            *)
(***************************************************************************)
List_empty == <<>>
List_single_high == <<Cand(Code_8528, 95)>>
List_single_food == <<Cand(Code_2009, 95)>>
List_pair_clear == <<Cand(Code_8528, 91), Cand(Code_8471, 70)>>
List_triple_electronics == <<Cand(Code_8471, 76), Cand(Code_8528, 70), Cand(Code_2009, 65)>>
List_triple_food == <<Cand(Code_2009, 68), Cand(Code_0808, 66), Cand(Code_0813, 65)>>

SearchResults ==
    {List_empty, List_single_high, List_single_food, List_pair_clear,
     List_triple_electronics, List_triple_food}

Descriptions == KnownDescriptions

A_no == <<"n","o">>
Answers == {A_no}

QA(q, a) == [question |-> q, answer |-> a]

ClassifyInit ==
    /\ pc = "loop"
    /\ product_description \in Descriptions
    /\ iteration = 0
    /\ qa_history = <<>>
    /\ current_candidates = <<>>
    /\ prev_candidates = <<>>
    /\ converged = "unset"
    /\ claude_response = NoResponse
    /\ result = Running
    /\ generated = {}
    /\ turn_log = NewTurn
    /\ TreeIdle
    /\ BackendIdle
    /\ RaceIdle
    /\ EmbIdle
    /\ SearchIdle
    /\ RefIdle

\* _candidates_seem_relevant on the modelled descriptions and result lists,
\* evaluated once
RelevantPairs ==
    {pair \in Descriptions \X SearchResults : candidates_seem_relevant(pair[1], pair[2])}
seem_relevant(description, candidates) ==
    IF description \in Descriptions /\ candidates \in SearchResults
    THEN <<description, candidates>> \in RelevantPairs
    ELSE candidates_seem_relevant(description, candidates)

\* generate_smart_query's possible results per description, evaluated once
QueriesFor == [d \in Descriptions |-> SmartQueryOutcomes(d)]
QueryTable == [d \in Descriptions |-> [r \in QueryReplies |-> generate_smart_query(r, d)]]

\* mutant: the turn counter is not advanced
NextIteration_stuck(i) == i

\* state.iteration += 1
NextIteration(i) == i + 1

\* mutant: the retry result replaces the candidates whatever it holds
RetryChoice_unchecked(description, first, retry_candidates) == retry_candidates

\* lines 1449-1458: the retry result is taken only when non-empty and relevant
RetryChoice(description, first, retry_candidates) ==
    IF retry_candidates # <<>> /\ seem_relevant(description, retry_candidates)
    THEN retry_candidates
    ELSE first

\* top of the while loop up to the "Found n candidates" line: query synthesis,
\* search, relevance pre-check and the single retry
TurnSearch ==
    /\ pc = "loop"
    /\ iteration' = NextIteration(iteration)
    /\ \E llm_reply \in QueryReplies, first \in SearchResults :
          LET claude_query == QueryTable[product_description][llm_reply]
              first_log == <<QueryLog(llm_reply, claude_query)>>
          IN IF first # <<>> /\ ~seem_relevant(product_description, first)
             THEN \E retry_reply \in QueryReplies :
                     LET retry_query == QueryTable[product_description][retry_reply]
                         both_log == Append(first_log, QueryLog(retry_reply, retry_query))
                     IN IF retry_query # claude_query
                        THEN \E retry_candidates \in SearchResults :
                                /\ current_candidates' =
                                      RetryChoice(product_description, first, retry_candidates)
                                /\ turn_log' = [NewTurn EXCEPT !.synth = 2, !.searches = 2,
                                                               !.queries = both_log,
                                                               !.first = first,
                                                               !.retry = retry_candidates]
                        ELSE /\ current_candidates' = first
                             /\ turn_log' = [NewTurn EXCEPT !.synth = 2, !.searches = 1,
                                                            !.queries = both_log,
                                                            !.first = first]
             ELSE /\ current_candidates' = first
                  /\ turn_log' = [NewTurn EXCEPT !.synth = 1, !.searches = 1,
                                                 !.queries = first_log, !.first = first]
    /\ pc' = "searched"
    /\ UNCHANGED <<product_description, qa_history, prev_candidates, converged,
                   claude_response, result, generated>>
    /\ UNCHANGED <<treeVars, beVars, raceVars, embVars, searchVars, refVars>>

\* mutant: the empty-candidates test is missing, the turn goes on to the convergence check
NoCandidates_fallthrough ==
    /\ pc = "searched"
    /\ current_candidates = <<>>
    /\ converged' = check_convergence(iteration, current_candidates, prev_candidates, qa_history)
    /\ turn_log' = [turn_log EXCEPT !.conv_checks = @ + 1, !.first = <<>>, !.retry = <<>>]
    /\ pc' = IF converged' THEN "final" ELSE "generate"
    /\ UNCHANGED <<product_description, iteration, qa_history, current_candidates,
                   prev_candidates, claude_response, result, generated>>
    /\ UNCHANGED <<treeVars, beVars, raceVars, embVars, searchVars, refVars>>

\* if not state.current_candidates: return None
NoCandidates ==
    /\ pc = "searched"
    /\ current_candidates = <<>>
    /\ result' = ReturnNone
    /\ pc' = "done"
    /\ UNCHANGED <<product_description, iteration, qa_history, current_candidates,
                   prev_candidates, converged, claude_response, generated, turn_log>>
    /\ UNCHANGED <<treeVars, beVars, raceVars, embVars, searchVars, refVars>>

\* converged = self.check_convergence(state, prev_candidates); break when true
\* (the two search results of the turn are dead locals from here on)
CheckConvergence ==
    /\ pc = "searched"
    /\ current_candidates # <<>>
    /\ converged' = check_convergence(iteration, current_candidates, prev_candidates, qa_history)
    /\ turn_log' = [turn_log EXCEPT !.conv_checks = @ + 1, !.first = <<>>, !.retry = <<>>]
    /\ pc' = IF converged' THEN "final" ELSE "generate"
    /\ UNCHANGED <<product_description, iteration, qa_history, current_candidates,
                   prev_candidates, claude_response, result, generated>>
    /\ UNCHANGED <<treeVars, beVars, raceVars, embVars, searchVars, refVars>>

\* claude_response = generate_question(state) and the branch on its type, up to input()
GenerateQuestion ==
    /\ pc = "generate"
    /\ \E llm_reply \in QuestionReplies :
          LET response == generate_question(llm_reply, product_description, qa_history)
          IN /\ claude_response' = response
             /\ turn_log' = [turn_log EXCEPT !.questions = @ + 1,
                                             !.question_raised = (llm_reply = LLMRaises)]
             /\ IF response.type = "raised"
                THEN \* an exception leaving generate_question ends classify_product
                     /\ result' = ReturnException
                     /\ pc' = "done"
                     /\ UNCHANGED <<prev_candidates, generated>>
                ELSE IF response.type = "conclusion"
                THEN IF current_candidates # <<>>
                     THEN /\ result' = ReturnCandidate(
                                           conclusion_candidate(response.content, current_candidates))
                          /\ pc' = "done"
                          /\ UNCHANGED <<prev_candidates, generated>>
                     ELSE /\ prev_candidates' = current_candidates
                          /\ pc' = "loop"
                          /\ UNCHANGED <<result, generated>>
                ELSE /\ generated' = generated \cup {response.content}
                     /\ pc' = "await_answer"
                     /\ UNCHANGED <<result, prev_candidates>>
    /\ UNCHANGED <<product_description, iteration, qa_history, current_candidates, converged>>
    /\ UNCHANGED <<treeVars, beVars, raceVars, embVars, searchVars, refVars>>

\* mutant: the answer is read but not appended to qa_history
Answer_not_recorded ==
    /\ pc = "await_answer"
    /\ turn_log' = [turn_log EXCEPT !.answers = @ + 1]
    /\ prev_candidates' = current_candidates
    /\ pc' = "loop"
    /\ UNCHANGED <<product_description, iteration, qa_history, current_candidates, converged,
                   claude_response, result, generated>>
    /\ UNCHANGED <<treeVars, beVars, raceVars, embVars, searchVars, refVars>>

\* answer = input(...); qa_history.append(...); prev_candidates = copy
Answer ==
    /\ pc = "await_answer"
    /\ \E answer \in Answers :
          qa_history' = Append(qa_history, QA(claude_response.content, answer))
    /\ turn_log' = [turn_log EXCEPT !.answers = @ + 1]
    /\ prev_candidates' = current_candidates
    /\ pc' = "loop"
    /\ UNCHANGED <<product_description, iteration, current_candidates, converged,
                   claude_response, result, generated>>
    /\ UNCHANGED <<treeVars, beVars, raceVars, embVars, searchVars, refVars>>

\* after the loop: the single candidate, or the one the user selects among the top 5
Finalize ==
    /\ pc = "final"
    /\ IF current_candidates # <<>>
       THEN IF Len(current_candidates) = 1
            THEN result' = ReturnCandidate(current_candidates[1])
            ELSE \E choice_num \in 1..Min(5, Len(current_candidates)) :
                    result' = ReturnCandidate(current_candidates[choice_num])
       ELSE result' = ReturnNone
    /\ pc' = "done"
    /\ UNCHANGED <<product_description, iteration, qa_history, current_candidates,
                   prev_candidates, converged, claude_response, generated, turn_log>>
    /\ UNCHANGED <<treeVars, beVars, raceVars, embVars, searchVars, refVars>>

ClassifyNext ==
    \/ TurnSearch
    \/ NoCandidates
    \/ CheckConvergence
    \/ GenerateQuestion
    \/ Answer
    \/ Finalize

SpecClassify == ClassifyInit /\ [][ClassifyNext]_vars

(***************************************************************************)
(* SpecBackend: the Flask session API of backend_api.py, one session of    *)
(* active_sessions driven by an HTTP client.  The client chooses which     *)
(* endpoint to call next and what the JSON payload holds.                  *)
(***************************************************************************)
MaxBackendTurns == 2

Str_horse == <<"h","o","r","s","e">>
Str_Arabian_horse == <<"A","r","a","b","i","a","n"," ","h","o","r","s","e">>
BackendDescriptions == {Str_OLED_monitor, Str_Arabian_horse}

\* get_demo_horse_candidates
demo_horse_candidates ==
    <<HSCode(<<"0","1","0","1"," ","2","1"," ","0","0">>, <<"P","u","r","e","-","b","r","e","d"," ","b","r","e","e","d","i","n","g"," ","a","n","i","m","a","l","s"," ","-"," ","H","o","r","s","e","s">>, 92),
      HSCode(<<"0","1","0","1"," ","2","9"," ","1","0">>, <<"F","o","r"," ","s","l","a","u","g","h","t","e","r"," ","-"," ","H","o","r","s","e","s">>, 78),
      HSCode(<<"0","1","0","1"," ","2","9"," ","9","0">>, <<"O","t","h","e","r"," ","-"," ","H","o","r","s","e","s">>, 85),
      HSCode(<<"0","1","0","1"," ","3","0"," ","0","0">>, <<"A","s","s","e","s">>, 45),
      HSCode(<<"0","1","0","1"," ","9","0"," ","0","0">>, <<"O","t","h","e","r"," ","-"," ","L","i","v","e"," ","a","n","i","m","a","l","s">>, 35)>>

\* get_demo_horse_questions
demo_horse_questions ==
    <<Response("multiple_choice", <<"I","s"," ","t","h","i","s"," ","p","r","o","d","u","c","t"," ","a"," ","l","i","v","e",","," ","f","r","e","s","h",","," ","o","r"," ","p","r","o","c","e","s","s","e","d"," ","a","n","i","m","a","l"," ","p","r","o","d","u","c","t","?">>),
      Response("multiple_choice", <<"I","s"," ","t","h","e"," ","h","o","r","s","e"," ","y","o","u"," ","a","r","e"," ","r","e","f","e","r","r","i","n","g"," ","t","o"," ","a"," ","p","u","r","e","-","b","r","e","d"," ","a","n","i","m","a","l"," ","o","r"," ","c","r","o","s","s","b","r","e","d">>),
      Response("question", <<"W","h","a","t"," ","i","s"," ","t","h","e"," ","i","n","t","e","n","d","e","d"," ","p","u","r","p","o","s","e"," ","o","f"," ","t","h","i","s"," ","h","o","r","s","e","?">>),
      Response("question", <<"C","a","n"," ","y","o","u"," ","p","r","o","v","i","d","e"," ","a","n","y"," ","a","d","d","i","t","i","o","n","a","l"," ","t","e","c","h","n","i","c","a","l"," ","s","p","e","c","i","f","i","c","a","t","i","o","n","s"," ","o","r"," ","d","e","t","a","i","l","s"," ","a","b","o","u","t"," ","y","o","u","r"," ","h","o","r","s","e","?">>)>>

BackendSearchResults == {List_empty, List_single_high, List_triple_food}

Str_analysis_complete == <<"C","l","a","s","s","i","f","i","c","a","t","i","o","n"," ","a","n","a","l","y","s","i","s"," ","c","o","m","p","l","e","t","e",".">>

Q_absent == <<>>
A_empty == <<>>

BackendInit ==
    /\ pc = "no_session"
    /\ product_description = <<>>
    /\ iteration = 0
    /\ qa_history = <<>>
    /\ current_candidates = <<>>
    /\ prev_candidates = <<>>
    /\ converged = "unset"
    /\ claude_response = NoResponse
    /\ result = Running
    /\ generated = {}
    /\ turn_log = NewTurn
    /\ demo_mode = FALSE
    /\ reply = NoReply
    /\ TreeIdle
    /\ RaceIdle
    /\ EmbIdle
    /\ SearchIdle
    /\ RefIdle

\* the search of start_classification / submit_answer: first search, relevance
\* pre-check, single retry; sets the session's candidates and the turn history
BackendSearch(description) ==
    \E smart_query \in SmartQueryOutcomes(description), first \in BackendSearchResults :
        IF first # <<>> /\ ~seem_relevant(description, first)
        THEN \E retry_query \in SmartQueryOutcomes(description) :
                IF retry_query # smart_query
                THEN \E retry_candidates \in BackendSearchResults :
                        /\ current_candidates' =
                              IF retry_candidates # <<>>
                                 /\ seem_relevant(description, retry_candidates)
                              THEN retry_candidates
                              ELSE first
                        /\ turn_log' = [NewTurn EXCEPT !.synth = 2, !.searches = 2]
                ELSE /\ current_candidates' = first
                     /\ turn_log' = [NewTurn EXCEPT !.synth = 2, !.searches = 1]
        ELSE /\ current_candidates' = first
             /\ turn_log' = [NewTurn EXCEPT !.synth = 1, !.searches = 1]

\* POST /api/classify/start
start_classification ==
    /\ pc = "no_session"
    /\ \E description \in BackendDescriptions :
          /\ product_description' = description
          /\ IF IsSubstr(Str_horse, Lower(description))
             THEN /\ demo_mode' = TRUE
                  /\ current_candidates' = demo_horse_candidates
                  /\ turn_log' = NewTurn
             ELSE /\ demo_mode' = FALSE
                  /\ BackendSearch(description)
    /\ pc' = "active"
    /\ reply' = [endpoint |-> "start", code |-> 200]
    /\ UNCHANGED <<iteration, qa_history, prev_candidates, converged, claude_response,
                   result, generated>>
    /\ UNCHANGED <<treeVars, raceVars, embVars, searchVars, refVars>>

\* GET /api/classify/question/<session_id>
get_next_question ==
    /\ pc = "active"
    /\ IF demo_mode
       THEN IF Len(qa_history) < Len(demo_horse_questions)
            THEN claude_response' = demo_horse_questions[Len(qa_history) + 1]
            ELSE claude_response' = Response("convergence_reached", Str_analysis_complete)
       ELSE \E response \in GenerateQuestionOutcomes(product_description, qa_history) :
               claude_response' = response
    /\ generated' = generated \cup {claude_response'.content}
    /\ turn_log' = [turn_log EXCEPT !.questions = 1]
    /\ reply' = [endpoint |-> "question", code |-> 200]
    /\ UNCHANGED <<pc, product_description, iteration, qa_history, current_candidates,
                   prev_candidates, converged, result, demo_mode>>
    /\ UNCHANGED <<treeVars, raceVars, embVars, searchVars, refVars>>

\* POST /api/classify/answer/<session_id> with payload {question, answer}
submit_answer ==
    /\ pc = "active"
    /\ iteration < MaxBackendTurns
    /\ \E question \in {claude_response.content, Q_absent}, answer \in Answers \cup {A_empty} :
          IF answer = A_empty
          THEN /\ reply' = [endpoint |-> "answer", code |-> 400]
               /\ UNCHANGED <<iteration, qa_history, current_candidates, prev_candidates,
                              converged, turn_log>>
          ELSE /\ qa_history' = Append(qa_history, QA(question, answer))
               /\ prev_candidates' = current_candidates
               /\ iteration' = iteration + 1
               /\ reply' = [endpoint |-> "answer", code |-> 200]
               /\ IF demo_mode /\ Len(qa_history') >= 4
                  THEN /\ converged' = TRUE
                       /\ UNCHANGED <<current_candidates, turn_log>>
                  ELSE /\ BackendSearch(product_description)
                       /\ converged' = check_convergence(iteration', current_candidates',
                                                         prev_candidates', qa_history')
    /\ UNCHANGED <<pc, product_description, claude_response, result, generated, demo_mode>>
    /\ UNCHANGED <<treeVars, raceVars, embVars, searchVars, refVars>>

BackendNext ==
    \/ start_classification
    \/ get_next_question
    \/ submit_answer

SpecBackend == BackendInit /\ [][BackendNext]_vars

(***************************************************************************)
(* SpecRefine: one classify_product run and one backend session that get   *)
(* the same search results (the candidates a turn ends up with, retry      *)
(* included) and the same answers to the same questions.                   *)
(***************************************************************************)
MaxRefineAnswers == 7

RefineResults ==
    {List_empty, List_single_high, List_pair_clear, List_triple_electronics, List_triple_food}

\* the Q&A entry both sides append for one answered question
RefineQA == QA(Q_screen, A_no)

\* fullimpl.py 1404-1480: one loop turn of classify_product that ends with the
\* candidates new_candidates: return None, break on convergence, or ask
ClassifyTurn(state, new_candidates) ==
    LET turn == NextIteration(state.iteration)
    IN [state EXCEPT
          !.iteration = turn,
          !.current_candidates = new_candidates,
          !.status = IF new_candidates = <<>> THEN "none"
                     ELSE IF check_convergence(turn, new_candidates, state.prev_candidates,
                                               state.qa_history)
                     THEN "converged"
                     ELSE "asking"]

\* fullimpl.py 1535-1557: the answer is appended, prev_candidates is the copy
ClassifyAnswer(state, qa) ==
    [state EXCEPT !.qa_history = Append(@, qa), !.prev_candidates = state.current_candidates]

\* backend_api.py 36-49 and 155-222: a new session after start_classification;
\* no convergence is computed or reported
SessionStart(candidates) ==
    [started |-> TRUE, iteration |-> 0, qa_history |-> <<>>,
     current_candidates |-> candidates, prev_candidates |-> <<>>, converged |-> FALSE]

\* backend_api.py 345-439: submit_answer appends, copies, counts, searches and checks
SessionAnswer(session, qa, new_candidates) ==
    LET qa_history_1 == Append(session.qa_history, qa)
        prev == session.current_candidates
        turn == session.iteration + 1
    IN [session EXCEPT
          !.qa_history = qa_history_1,
          !.prev_candidates = prev,
          !.iteration = turn,
          !.current_candidates = new_candidates,
          !.converged = check_convergence(turn, new_candidates, prev, qa_history_1)]

RefineInit ==
    /\ ref_cls = NotStarted
    /\ ref_be = NotStarted
    /\ ClsIdle
    /\ TreeIdle
    /\ BackendIdle
    /\ RaceIdle
    /\ EmbIdle
    /\ SearchIdle

\* classify_product(description) is called and POST /api/classify/start is sent
RefineStart ==
    /\ ~ref_be.started
    /\ \E first \in RefineResults :
          /\ ref_cls' = ClassifyTurn([started |-> TRUE, iteration |-> 0, qa_history |-> <<>>,
                                      current_candidates |-> <<>>, prev_candidates |-> <<>>,
                                      status |-> "asking"], first)
          /\ ref_be' = SessionStart(first)
    /\ UNCHANGED <<clsVars, treeVars, beVars, raceVars, embVars, searchVars>>

\* the user answers the pending question on both sides; each side that is still
\* running searches again and gets the same candidates
RefineAnswer ==
    /\ ref_be.started
    /\ Len(ref_be.qa_history) < MaxRefineAnswers
    /\ ~ref_be.converged
    /\ \E new_candidates \in RefineResults :
          /\ ref_cls' = IF ref_cls.status = "asking"
                        THEN ClassifyTurn(ClassifyAnswer(ref_cls, RefineQA), new_candidates)
                        ELSE ref_cls
          /\ ref_be' = SessionAnswer(ref_be, RefineQA, new_candidates)
    /\ UNCHANGED <<clsVars, treeVars, beVars, raceVars, embVars, searchVars>>

RefineNext == RefineStart \/ RefineAnswer

SpecRefine == RefineInit /\ [][RefineNext]_vars

(***************************************************************************)
(* SpecRace: two request threads of the Flask server inside                *)
(* HSCodeSemanticSearch.search_hs_codes on the one shared embedding        *)
(* service.  A step is one read or write of self._current_qa_history; the  *)
(* thread-local work between two such accesses is folded into the step.    *)
(***************************************************************************)
RaceThreads == {1, 2}

Leaf(c, n) == [code |-> c, name |-> n, path |-> n]

\* three root-level leaves of the taxonomy (full path = name)
RaceLeaves ==
    <<Leaf(<<"0","8","0","8"," ","1","0"," ","1","0">>, <<"C","i","d","e","r"," ","a","p","p","l","e","s",","," ","i","n"," ","b","u","l","k">>),
      Leaf(<<"0","8","0","8"," ","1","0"," ","8","0">>, <<"A","p","p","l","e","s",","," ","f","r","e","s","h">>),
      Leaf(<<"0","8","1","3"," ","3","0"," ","0","0">>, <<"A","p","p","l","e","s",","," ","d","r","i","e","d">>)>>

\* semantic similarity plus keyword boost minus keyword penalty for the
\* query of the call, per leaf (lines 240-256)
race_similarities == <<80, 75, 70>>

similarity_threshold == 60

Q_dried_or_fresh == <<"I","s"," ","t","h","i","s"," ","d","r","i","e","d"," ","o","r"," ","f","r","e","s","h"," ","f","r","u","i","t","?">>
Q_cider_or_eating == <<"A","r","e"," ","t","h","e","s","e"," ","c","i","d","e","r"," ","o","r"," ","e","a","t","i","n","g"," ","a","p","p","l","e","s","?">>
A_eating == <<"e","a","t","i","n","g">>

RaceHistories ==
    {<<>>, <<QA(Q_dried_or_fresh, A_no)>>, <<QA(Q_cider_or_eating, A_eating)>>}

important_terms ==
    {<<"b","u","l","k">>, <<"c","i","d","e","r">>, <<"d","r","i","e","d">>, <<"s","e","a","s","o","n","a","l">>, <<"s","e","p","t","e","m","b","e","r">>, <<"d","e","c","e","m","b","e","r">>, <<"s","h","i","p","p","e","d">>, <<"s","h","i","p","p","i","n","g">>}

\* _extract_negated_terms
extract_negated_terms(question, answer) ==
    {term \in important_terms : term \in Range(Split(Lower(question)))}

\* first position >= from where sub occurs in s, 0 when it does not
FindFrom(sub, s, from) ==
    LET hits == {i \in from..(Len(s) - Len(sub) + 1) : SubSeq(s, i, i + Len(sub) - 1) = sub}
    IN IF hits = {} THEN 0 ELSE CHOOSE i \in hits : \A j \in hits : i <= j

\* _extract_alternatives: last word before and first word after the first " or "
extract_alternatives(question) ==
    LET or == <<" ","o","r"," ">>
        q == Lower(question)
        p1 == FindFrom(or, q, 1)
        p2 == FindFrom(or, q, p1 + Len(or))
        part0 == Split(SubSeq(q, 1, p1 - 1))
        part1 == Split(SubSeq(q, p1 + Len(or), IF p2 = 0 THEN Len(q) ELSE p2 - 1))
        first_alt == IF part0 # <<>> THEN part0[Len(part0)] ELSE <<>>
        second_alt == IF part1 # <<>> THEN part1[1] ELSE <<>>
    IN IF p1 = 0 THEN <<>>
       ELSE (IF Len(first_alt) > 2 THEN <<first_alt>> ELSE <<>>)
            \o (IF Len(second_alt) > 2 THEN <<second_alt>> ELSE <<>>)

\* the penalty one Q&A entry adds for one node (body of the loop, lines 425-473)
qa_entry_penalty(qa, combined_node_text) ==
    LET question == Lower(qa.question)
        answer == Lower(qa.answer)
        has(a, b) == IsSubstr(a, b)
        no_terms == extract_negated_terms(question, answer)
        alternatives == extract_alternatives(question)
        chosen == Strip(answer, Whitespace)
        pattern12 ==
            IF has(<<"a","r","e"," ","t","h","e","s","e">>, question) \/ has(<<"i","s"," ","t","h","i","s">>, question)
               \/ has(<<"d","o"," ","y","o","u"," ","h","a","v","e">>, question)
            THEN IF answer \in {<<"n","o">>, <<"n","o","t">>, <<"n","o","n","e">>, <<"n","e","v","e","r">>}
                 THEN 80 * Cardinality({term \in no_terms : has(term, combined_node_text)})
                 ELSE IF has(<<"o","r">>, question)
                 THEN 70 * Cardinality({k \in 1..Len(alternatives) :
                                           /\ alternatives[k] # chosen
                                           /\ ~has(alternatives[k], chosen)
                                           /\ has(alternatives[k], combined_node_text)})
                 ELSE 0
            ELSE 0
        pattern3 ==
            IF has(<<"b","u","l","k">>, answer) /\ has(<<"n","o">>, answer)
               /\ has(<<"b","u","l","k">>, combined_node_text)
            THEN 90 ELSE 0
        pattern4 ==
            IF (has(<<"s","e","p","t","e","m","b","e","r">>, combined_node_text) \/ has(<<"d","e","c","e","m","b","e","r">>, combined_node_text))
               /\ has(<<"n","o">>, answer)
               /\ (has(<<"s","e","p","t","e","m","b","e","r">>, question) \/ has(<<"d","e","c","e","m","b","e","r">>, question))
            THEN 80 ELSE 0
        pattern5 ==
            IF has(<<"c","i","d","e","r">>, combined_node_text)
               /\ (has(<<"r","e","g","u","l","a","r">>, answer) \/ has(<<"e","a","t","i","n","g">>, answer)
                   \/ (has(<<"n","o","t">>, answer) /\ has(<<"c","i","d","e","r">>, question)))
            THEN 90 ELSE 0
    IN pattern12 + pattern3 + pattern4 + pattern5

RECURSIVE SumPenalties(_, _)
SumPenalties(history, combined_node_text) ==
    IF history = <<>> THEN 0
    ELSE qa_entry_penalty(history[1], combined_node_text)
         + SumPenalties(Tail(history), combined_node_text)

\* _calculate_qa_contradiction_penalty
calculate_qa_contradiction_penalty(history, node_text, node_path) ==
    SumPenalties(history, Lower(node_text \o <<" ">> \o node_path))

\* the penalty of every (history, leaf) pair the model uses, evaluated once
QAPenaltyTable ==
    [h \in RaceHistories |->
        [i \in 1..Len(RaceLeaves) |->
            calculate_qa_contradiction_penalty(h, Lower(RaceLeaves[i].name),
                                               Lower(RaceLeaves[i].path))]]

\* max(0.0, min(1.0, final_score))
ClampScore(final_score) == Max(0, Min(100, final_score))

\* mutant: only scores strictly above the base threshold are counted
get_adaptive_threshold_strict(similarities, base_threshold) ==
    LET high_scores == Cardinality({i \in 1..Len(similarities) : similarities[i] > base_threshold})
    IN IF high_scores > 50 THEN Min(80, base_threshold + 20)
       ELSE IF high_scores > 20 THEN Min(75, base_threshold + 10)
       ELSE base_threshold

\* _get_adaptive_threshold
get_adaptive_threshold(similarities, base_threshold) ==
    LET high_scores == Cardinality({i \in 1..Len(similarities) : similarities[i] >= base_threshold})
    IN IF high_scores > 50 THEN Min(80, base_threshold + 20)
       ELSE IF high_scores > 20 THEN Min(75, base_threshold + 10)
       ELSE base_threshold

\* sorted(results, key=similarity_score, reverse=True): stable, highest first
SortByScore(results) ==
    LET n == Len(results)
        rank == [i \in 1..n |->
                    1 + Cardinality({j \in 1..n :
                        \/ results[j].similarity_score > results[i].similarity_score
                        \/ (results[j].similarity_score = results[i].similarity_score /\ j < i)})]
    IN [k \in 1..n |-> results[CHOOSE i \in 1..n : rank[i] = k]]

\* mutant: the band filter already applies to 30 results
apply_harsh_filtering_from_30(results) ==
    IF Len(results) <= 10 THEN results
    ELSE IF Len(results) >= 30
    THEN Prefix(SelectSeq(results, LAMBDA r :
                    r.similarity_score >= results[1].similarity_score - 15), 20)
    ELSE Prefix(results, 25)

\* _apply_harsh_filtering
apply_harsh_filtering(results) ==
    IF Len(results) <= 10 THEN results
    ELSE IF Len(results) > 30
    THEN Prefix(SelectSeq(results, LAMBDA r :
                    r.similarity_score >= results[1].similarity_score - 15), 20)
    ELSE Prefix(results, 25)

\* lines 276-301: threshold filter, sort, harsh filter
SearchReturn(similarities) ==
    LET adjusted_threshold == get_adaptive_threshold(similarities, similarity_threshold)
        all == [i \in 1..Len(RaceLeaves) |->
                   HSCode(RaceLeaves[i].code, RaceLeaves[i].name, similarities[i])]
    IN apply_harsh_filtering(SortByScore(
           SelectSeq(all, LAMBDA c : c.similarity_score >= adjusted_threshold)))

\* what one call returns when no other call runs
SoloResult(history) ==
    SearchReturn([i \in 1..Len(RaceLeaves) |->
                     ClampScore(race_similarities[i]
                                - (IF history # <<>> THEN QAPenaltyTable[history][i] ELSE 0))])

RaceInit ==
    /\ _current_qa_history = NoHistory
    /\ th_pc = [t \in RaceThreads |-> "idle"]
    /\ th_qa_history = [t \in RaceThreads |-> <<>>]
    /\ th_i = [t \in RaceThreads |-> 0]
    /\ th_similarities = [t \in RaceThreads |-> <<>>]
    /\ th_results = [t \in RaceThreads |-> <<>>]
    /\ ClsIdle
    /\ TreeIdle
    /\ BackendIdle
    /\ EmbIdle
    /\ SearchIdle
    /\ RefIdle

\* line 264-266 for leaf i, then the next loop position
RaceAdvance(t, qa_penalty) ==
    /\ th_similarities' = [th_similarities EXCEPT
                              ![t][th_i[t]] = ClampScore(@ - qa_penalty)]
    /\ th_i' = [th_i EXCEPT ![t] = @ + 1]
    /\ th_pc' = [th_pc EXCEPT ![t] = IF th_i[t] = Len(RaceLeaves) THEN "cleanup" ELSE "test"]

\* a request thread enters search_hs_codes with its session's qa_history
RaceCall(t) ==
    /\ th_pc[t] = "idle"
    /\ \E history \in RaceHistories :
          th_qa_history' = [th_qa_history EXCEPT ![t] = history]
    /\ th_pc' = [th_pc EXCEPT ![t] = "store"]
    /\ UNCHANGED <<_current_qa_history, th_i, th_similarities, th_results>>
    /\ UNCHANGED <<clsVars, treeVars, beVars, embVars, searchVars, refVars>>

\* line 237: self._current_qa_history = qa_history or []   (then lines 240-246)
RaceStore(t) ==
    /\ th_pc[t] = "store"
    /\ _current_qa_history' = [set |-> TRUE, qa |-> th_qa_history[t]]
    /\ th_similarities' = [th_similarities EXCEPT ![t] = race_similarities]
    /\ th_i' = [th_i EXCEPT ![t] = 1]
    /\ th_pc' = [th_pc EXCEPT ![t] = "test"]
    /\ UNCHANGED <<th_qa_history, th_results>>
    /\ UNCHANGED <<clsVars, treeVars, beVars, embVars, searchVars, refVars>>

\* line 259: if self._current_qa_history:
RaceTest(t) ==
    /\ th_pc[t] = "test"
    /\ IF _current_qa_history.set /\ _current_qa_history.qa # <<>>
       THEN /\ th_pc' = [th_pc EXCEPT ![t] = "penalty"]
            /\ UNCHANGED <<th_i, th_similarities>>
       ELSE RaceAdvance(t, 0)
    /\ UNCHANGED <<_current_qa_history, th_qa_history, th_results>>
    /\ UNCHANGED <<clsVars, treeVars, beVars, embVars, searchVars, refVars>>

\* line 260: the penalty call reads self._current_qa_history again; iterating
\* over None raises TypeError out of search_hs_codes
RacePenalty(t) ==
    /\ th_pc[t] = "penalty"
    /\ IF _current_qa_history.set
       THEN RaceAdvance(t, IF _current_qa_history.qa = <<>> THEN 0
                           ELSE QAPenaltyTable[_current_qa_history.qa][th_i[t]])
       ELSE /\ th_pc' = [th_pc EXCEPT ![t] = "raised"]
            /\ UNCHANGED <<th_i, th_similarities>>
    /\ UNCHANGED <<_current_qa_history, th_qa_history, th_results>>
    /\ UNCHANGED <<clsVars, treeVars, beVars, embVars, searchVars, refVars>>

\* line 273: self._current_qa_history = None, then filter, sort and return
RaceCleanup(t) ==
    /\ th_pc[t] = "cleanup"
    /\ _current_qa_history' = NoHistory
    /\ th_results' = [th_results EXCEPT ![t] = SearchReturn(th_similarities[t])]
    /\ th_pc' = [th_pc EXCEPT ![t] = "returned"]
    /\ UNCHANGED <<th_qa_history, th_i, th_similarities>>
    /\ UNCHANGED <<clsVars, treeVars, beVars, embVars, searchVars, refVars>>

RaceNext ==
    \E t \in RaceThreads :
        \/ RaceCall(t)
        \/ RaceStore(t)
        \/ RaceTest(t)
        \/ RacePenalty(t)
        \/ RaceCleanup(t)

SpecRace == RaceInit /\ [][RaceNext]_vars

(***************************************************************************)
(* SpecEmbed: HSCodeSemanticSearch.load_data / compute_embeddings over a   *)
(* file system that outlives the process.  A matrix is the sequence of the *)
(* leaves its rows were computed from.                                     *)
(***************************************************************************)
MaxHashSeeds == 2

\* the leaf lists of the taxonomy files that can be loaded
Taxonomies == {<<"a1", "a2", "a3">>, <<"b1", "b2">>, <<>>}

ExplicitFile == [name |-> "hs_embeddings.pkl", leaves |-> <<>>, seed |-> 0]

\* f"hs_embeddings_{abs(hash(str([node.to_dict() ...])))}.pkl": a function of
\* the leaf list and of the process's string-hash seed
DefaultFile(leaves, seed) == [name |-> "hs_embeddings_<hash>.pkl", leaves |-> leaves, seed |-> seed]

EmbPaths ==
    {ExplicitFile} \cup {DefaultFile(l, sd) : l \in Taxonomies, sd \in 1..MaxHashSeeds}

Absent == [kind |-> "absent", rows |-> <<>>]
Corrupt == [kind |-> "corrupt", rows |-> <<>>]
Matrix(leaves) == [kind |-> "matrix", rows |-> leaves]

EmbInit ==
    /\ files \in {[p \in EmbPaths |-> IF p = ExplicitFile THEN c ELSE Absent] : c \in {Absent, Corrupt}}
    /\ embeddings = NoEmbeddings
    /\ embeddings_file = NoFile
    /\ hash_seed \in 1..MaxHashSeeds
    /\ emb_status = "none"
    /\ model_loaded = FALSE
    /\ emb_call = NoCall
    /\ rows = <<>>
    /\ next_row = 0
    /\ stack = <<>>
    /\ parent = <<>>
    /\ children = <<>>
    /\ tree_data = <<>>
    /\ leaf_nodes = <<>>
    /\ tree_pc = "idle"
    /\ ClsIdle
    /\ BackendIdle
    /\ RaceIdle
    /\ SearchIdle
    /\ RefIdle

\* load_data(filepath): rebuilds leaf_nodes, leaves self.embeddings alone
load_data ==
    /\ \E leaves \in Taxonomies : leaf_nodes' = leaves
    /\ emb_status' = "none"
    /\ UNCHANGED <<files, embeddings, embeddings_file, hash_seed, model_loaded, emb_call>>
    /\ UNCHANGED <<rows, next_row, stack, parent, children, tree_data, tree_pc>>
    /\ UNCHANGED <<clsVars, beVars, raceVars, searchVars, refVars>>

\* mutant: cached-only mode computes and caches when the file cannot be loaded
CachedOnly_compute_on_miss(embedding_file) ==
    IF embedding_file # NoFile /\ files[embedding_file].kind = "matrix"
    THEN /\ embeddings' = [loaded |-> TRUE, rows |-> files[embedding_file].rows]
         /\ embeddings_file' = embedding_file
         /\ emb_status' = "returned"
         /\ emb_call' = EmbCall(FALSE, embedding_file, TRUE, FALSE, FALSE)
         /\ UNCHANGED <<files, model_loaded>>
    ELSE /\ embeddings' = [loaded |-> TRUE, rows |-> leaf_nodes]
         /\ embeddings_file' = ExplicitFile
         /\ files' = [files EXCEPT ![ExplicitFile] = Matrix(leaf_nodes)]
         /\ model_loaded' = TRUE
         /\ emb_status' = "returned"
         /\ emb_call' = EmbCall(FALSE, embedding_file, TRUE, leaf_nodes # <<>>, TRUE)

\* lines 145-161: use_cached_only
CachedOnly(embedding_file) ==
    IF embedding_file = NoFile \/ files[embedding_file].kind # "matrix"
    THEN /\ emb_status' = "raised"
         /\ emb_call' = EmbCall(FALSE, embedding_file, TRUE, FALSE, FALSE)
         /\ UNCHANGED <<files, embeddings, embeddings_file, model_loaded>>
    ELSE /\ embeddings' = [loaded |-> TRUE, rows |-> files[embedding_file].rows]
         /\ embeddings_file' = embedding_file
         /\ emb_status' = "returned"
         /\ emb_call' = EmbCall(FALSE, embedding_file, TRUE, FALSE, FALSE)
         /\ UNCHANGED <<files, model_loaded>>

\* lines 165-171: the explicit file, else the name derived from hash(str(...))
CacheFileName(embedding_file) ==
    IF embedding_file # NoFile THEN embedding_file ELSE DefaultFile(leaf_nodes, hash_seed)

\* lines 163-221: load the model, then load the cache or compute and write it
LoadOrCompute(force_recompute, embedding_file) ==
    LET file == CacheFileName(embedding_file)
    IN /\ model_loaded' = TRUE
       /\ embeddings_file' = file
       /\ IF ~force_recompute /\ files[file].kind = "matrix"
          THEN /\ embeddings' = [loaded |-> TRUE, rows |-> files[file].rows]
               /\ emb_status' = "returned"
               /\ emb_call' = EmbCall(force_recompute, embedding_file, FALSE, FALSE, FALSE)
               /\ UNCHANGED files
          ELSE IF leaf_nodes = <<>>
          THEN \* no batch is encoded and np.vstack([]) raises ValueError
               /\ emb_status' = "raised"
               /\ emb_call' = EmbCall(force_recompute, embedding_file, FALSE, FALSE, FALSE)
               /\ UNCHANGED <<files, embeddings>>
          ELSE /\ embeddings' = [loaded |-> TRUE, rows |-> leaf_nodes]
               /\ files' = [files EXCEPT ![file] = Matrix(leaf_nodes)]
               /\ emb_status' = "returned"
               /\ emb_call' = EmbCall(force_recompute, embedding_file, FALSE, TRUE, TRUE)

\* compute_embeddings(force_recompute, embedding_file, use_cached_only)
compute_embeddings ==
    /\ \E force_recompute \in BOOLEAN, embedding_file \in {NoFile, ExplicitFile},
          use_cached_only \in BOOLEAN :
          IF use_cached_only
          THEN CachedOnly(embedding_file)
          ELSE LoadOrCompute(force_recompute, embedding_file)
    /\ UNCHANGED hash_seed
    /\ UNCHANGED treeVars
    /\ UNCHANGED <<clsVars, beVars, raceVars, searchVars, refVars>>

\* the process ends and a new one starts: objects are gone, files stay
RestartProcess ==
    /\ \E sd \in 1..MaxHashSeeds : hash_seed' = sd
    /\ embeddings' = NoEmbeddings
    /\ embeddings_file' = NoFile
    /\ leaf_nodes' = <<>>
    /\ emb_status' = "none"
    /\ model_loaded' = FALSE
    /\ emb_call' = NoCall
    /\ UNCHANGED files
    /\ UNCHANGED <<rows, next_row, stack, parent, children, tree_data, tree_pc>>
    /\ UNCHANGED <<clsVars, beVars, raceVars, searchVars, refVars>>

EmbNext ==
    \/ load_data
    \/ compute_embeddings
    \/ RestartProcess

SpecEmbed == EmbInit /\ [][EmbNext]_vars

(***************************************************************************)
(* SpecScore: the per-leaf scoring of search_hs_codes (lines 246-266) as a *)
(* function of the query, the Q&A history, the base similarity and the     *)
(* leaf texts, followed by the filter of lines 275-301.  One call, no      *)
(* other thread.                                                           *)
(***************************************************************************)
negative_indicators ==
    {<<"n","o","t">>, <<"w","i","t","h","o","u","t">>, <<"e","x","c","e","p","t">>, <<"e","x","c","l","u","d","i","n","g">>, <<"n","o">>, <<"n","o","n">>, <<"a","n","t","i">>, <<"u","n">>}

\* tech_contradictions: <<word, opposites>> per entry
tech_contradictions ==
    <<<<<<"o","l","e","d">>, <<<<"l","c","d">>, <<"l","e","d">>, <<"p","l","a","s","m","a">>, <<"c","r","t">>>>>>,
      <<<<"l","c","d">>, <<<<"o","l","e","d">>, <<"p","l","a","s","m","a">>, <<"c","r","t">>>>>>,
      <<<<"l","e","d">>, <<<<"o","l","e","d">>, <<"l","c","d">>, <<"p","l","a","s","m","a">>, <<"c","r","t">>>>>>,
      <<<<"w","i","r","e","l","e","s","s">>, <<<<"w","i","r","e","d">>, <<"c","a","b","l","e">>, <<"e","t","h","e","r","n","e","t">>>>>>,
      <<<<"w","i","r","e","d">>, <<<<"w","i","r","e","l","e","s","s">>, <<"w","i","f","i">>, <<"b","l","u","e","t","o","o","t","h">>>>>>,
      <<<<"d","i","g","i","t","a","l">>, <<<<"a","n","a","l","o","g">>, <<"a","n","a","l","o","g","u","e">>>>>>,
      <<<<"a","n","a","l","o","g">>, <<<<"d","i","g","i","t","a","l">>>>>>,
      <<<<"o","r","g","a","n","i","c">>, <<<<"s","y","n","t","h","e","t","i","c">>, <<"a","r","t","i","f","i","c","i","a","l">>>>>>,
      <<<<"s","y","n","t","h","e","t","i","c">>, <<<<"o","r","g","a","n","i","c">>, <<"n","a","t","u","r","a","l">>>>>>,
      <<<<"a","u","t","o","m","a","t","i","c">>, <<<<"m","a","n","u","a","l">>>>>>,
      <<<<"m","a","n","u","a","l">>, <<<<"a","u","t","o","m","a","t","i","c">>, <<"a","u","t","o">>>>>>>>

TechWords == {tech_contradictions[k][1] : k \in 1..Len(tech_contradictions)}
OppositesOf(word) ==
    tech_contradictions[CHOOSE k \in 1..Len(tech_contradictions) : tech_contradictions[k][1] = word][2]

\* s.endswith(suffix)
EndsWith(s, suffix) ==
    Len(s) >= Len(suffix) /\ SubSeq(s, Len(s) - Len(suffix) + 1, Len(s)) = suffix

\* s[:-n]
DropLast(s, n) == SubSeq(s, 1, Len(s) - n)

\* _get_plural_forms
get_plural_forms(word) ==
    IF EndsWith(word, <<"s">>) /\ Len(word) > 3 THEN <<DropLast(word, 1)>>
    ELSE IF EndsWith(word, <<"e", "s">>) /\ Len(word) > 4 THEN <<DropLast(word, 2)>>
    ELSE IF EndsWith(word, <<"i", "e", "s">>) /\ Len(word) > 5 THEN <<DropLast(word, 3) \o <<"y">> >>
    ELSE <<word \o <<"s">> >>
         \o (IF EndsWith(word, <<"y">>) THEN <<DropLast(word, 1) \o <<"i", "e", "s">> >> ELSE <<>>)
         \o (IF \E suffix \in {<<"s", "h">>, <<"c", "h">>, <<"x">>, <<"z">>, <<"o">>} :
                   EndsWith(word, suffix)
             THEN <<word \o <<"e", "s">> >> ELSE <<>>)

\* re.sub(r'[^\w]', '', word)
CleanWord(word) == SelectSeq(word, LAMBDA c : c \in WordChars)

Features(p, n, c) == [positive |-> p, negative |-> n, contradictions |-> c]

RECURSIVE FeaturesFrom(_, _)
\* the loop of _extract_query_features over words[i..]
FeaturesFrom(words, i) ==
    IF i > Len(words) THEN Features(<<>>, <<>>, <<>>)
    ELSE LET rest == FeaturesFrom(words, i + 1)
             word == CleanWord(words[i])
         IN IF Len(word) < 2 THEN rest
            ELSE IF i > 1 /\ words[i - 1] \in negative_indicators
            THEN Features(rest.positive,
                          <<word>> \o get_plural_forms(word) \o rest.negative,
                          rest.contradictions)
            ELSE Features(<<word>> \o get_plural_forms(word) \o rest.positive,
                          rest.negative,
                          IF word \in TechWords
                          THEN <<word>> \o rest.contradictions
                          ELSE rest.contradictions)

\* _extract_query_features(query_lower)
extract_query_features(query_lower) == FeaturesFrom(Split(query_lower), 1)

RECURSIVE SumSeq(_)
SumSeq(xs) == IF xs = <<>> THEN 0 ELSE xs[1] + SumSeq(Tail(xs))

\* _calculate_keyword_boost
calculate_keyword_boost(query_words, node_text, node_path) ==
    SumSeq([k \in 1..Len(query_words.positive) |->
        LET word == query_words.positive[k]
        IN IF Len(word) > 2
           THEN IF IsSubstr(word, node_text) THEN 25
                ELSE IF IsSubstr(word, node_path) THEN 15
                ELSE IF \E part \in Range(Split(node_text)) : IsSubstr(word, part) THEN 10
                ELSE 0
           ELSE 0])

\* _calculate_negative_penalty
calculate_negative_penalty(query_words, node_text, node_path) ==
    SumSeq([k \in 1..Len(query_words.negative) |->
        LET word == query_words.negative[k]
        IN IF Len(word) > 2
           THEN IF IsSubstr(word, node_text) THEN 40
                ELSE IF IsSubstr(word, node_path) THEN 20
                ELSE 0
           ELSE 0])
    + SumSeq([k \in 1..Len(query_words.contradictions) |->
        LET contradictory_words == OppositesOf(query_words.contradictions[k])
        IN 60 * Cardinality({j \in 1..Len(contradictory_words) :
                                \/ IsSubstr(contradictory_words[j], node_text)
                                \/ IsSubstr(contradictory_words[j], node_path)})])

\* HSCodeNode: name and the names of its ancestors, root first
Node(c, n, ancestors) == [code |-> c, name |-> n, ancestors |-> ancestors]

\* get_full_path
get_full_path(node) == Join(Append(node.ancestors, node.name), <<" ", "→", " ">>)

\* lines 249-261 for one leaf: the boost and the two penalties
LeafAdjustments(node, query_words, history) ==
    LET node_text_lower == Lower(node.name)
        node_path_lower == Lower(get_full_path(node))
    IN [keyword_boost |-> calculate_keyword_boost(query_words, node_text_lower, node_path_lower),
        keyword_penalty |-> calculate_negative_penalty(query_words, node_text_lower, node_path_lower),
        qa_penalty |-> IF history # <<>>
                       THEN calculate_qa_contradiction_penalty(history, node_text_lower,
                                                               node_path_lower)
                       ELSE 0]

\* mutant: the score is not clamped
FinalScore_unclamped(base, adj) ==
    base + Min(adj.keyword_boost, 40) - (adj.keyword_penalty + adj.qa_penalty)

\* lines 261-266: negative_penalty += qa_penalty; final_score; clamp
FinalScore(base, adj) ==
    LET negative_penalty == adj.keyword_penalty + adj.qa_penalty
        final_score == base + Min(adj.keyword_boost, 40) - negative_penalty
    IN ClampScore(final_score)

\* mutant: the results are returned in leaf order
ThresholdFilterSort_unsorted(nodes, similarities, adjusted_threshold) ==
    LET all == [i \in 1..Len(nodes) |-> HSCode(nodes[i].code, nodes[i].name, similarities[i])]
    IN SelectSeq(all, LAMBDA c : c.similarity_score >= adjusted_threshold)

\* lines 278-291: keep the leaves at or above the threshold, highest score first
ThresholdFilterSort(nodes, similarities, adjusted_threshold) ==
    LET all == [i \in 1..Len(nodes) |-> HSCode(nodes[i].code, nodes[i].name, similarities[i])]
    IN SortByScore(SelectSeq(all, LAMBDA c : c.similarity_score >= adjusted_threshold))

\* lines 276-294 for any leaf list: threshold filter, sort, harsh filter
FilterSortPrune(nodes, similarities, base_threshold) ==
    LET adjusted_threshold == get_adaptive_threshold(similarities, base_threshold)
    IN apply_harsh_filtering(ThresholdFilterSort(nodes, similarities, adjusted_threshold))

\* ---- the inputs of the modelled calls
Query_fresh_not_dried == <<"f","r","e","s","h"," ","a","p","p","l","e","s"," ","n","o","t"," ","d","r","i","e","d">>
Query_unsalted_not_salted == <<"u","n","s","a","l","t","e","d"," ","n","u","t","s"," ","n","o","t"," ","s","a","l","t","e","d">>
Query_hd_not_3d == <<"h","d"," ","t","v"," ","n","o","t"," ","3","d">>
Query_oled_tv == <<"O","L","E","D"," ","t","v">>
ScoreQueries == {Query_fresh_not_dried, Query_unsalted_not_salted, Query_hd_not_3d, Query_oled_tv}

\* two leaves that differ in one word: <<word of leaf a, word of leaf b, shared text>>;
\* an empty word adds nothing
LabelPairs ==
    {<<<<"d","r","i","e","d">>, <<"f","r","e","s","h">>, <<"a","p","p","l","e">>>>,
     <<<<"s","a","l","t","e","d">>, <<"u","n","s","a","l","t","e","d">>, <<"n","u","t","s">>>>,
     <<<<"3","d">>, <<"h","d">>, <<"t","v">>>>,
     <<<<"L","C","D">>, <<>>, <<"t","v">>>>,
     <<<<"L","E","D">>, <<>>, <<"O","L","E","D"," ","t","v">>>>}

Label(word, shared) == IF word = <<>> THEN shared ELSE word \o <<" ">> \o shared

ScoreHistories ==
    {<<>>, <<QA(Q_dried, A_no)>>, <<QA(Q_dried_or_fresh, A_no)>>}

ScoreBases == {-100, -40, -39, 0, 30, 70, 100}
ScoreThresholds == {0, similarity_threshold}
ScoreAncestors == {<<>>, <<<<"F","o","o","d">>>>}

ScoreInit ==
    /\ sc_in \in [query : ScoreQueries, pair : LabelPairs, history : ScoreHistories,
                  base : ScoreBases, threshold : ScoreThresholds, ancestors : ScoreAncestors]
    /\ sc_out = NotComputed
    /\ flt_in = <<>>
    /\ flt_out = NotComputed
    /\ ClsIdle
    /\ TreeIdle
    /\ BackendIdle
    /\ RaceIdle
    /\ EmbIdle
    /\ RefIdle

NodeA(pair, ancestors) == Node(<<"a">>, Label(pair[1], pair[3]), ancestors)
NodeB(pair, ancestors) == Node(<<"b">>, Label(pair[2], pair[3]), ancestors)

\* the query features and the per-leaf adjustments of every modelled input,
\* evaluated once
FeaturesTable == [q \in ScoreQueries |-> extract_query_features(Lower(q))]
AdjustmentsTable ==
    [q \in ScoreQueries |-> [pair \in LabelPairs |-> [h \in ScoreHistories |->
        [anc \in ScoreAncestors |->
            [a |-> LeafAdjustments(NodeA(pair, anc), FeaturesTable[q], h),
             b |-> LeafAdjustments(NodeB(pair, anc), FeaturesTable[q], h)]]]]]

\* search_hs_codes(query, threshold, history) over the two leaves a and b
ScoreCall ==
    /\ ~sc_out.computed
    /\ LET adj == AdjustmentsTable[sc_in.query][sc_in.pair][sc_in.history][sc_in.ancestors]
           node_a == NodeA(sc_in.pair, sc_in.ancestors)
           node_b == NodeB(sc_in.pair, sc_in.ancestors)
           final_a == FinalScore(sc_in.base, adj.a)
           final_b == FinalScore(sc_in.base, adj.b)
       IN sc_out' = [computed |-> TRUE, query_words |-> FeaturesTable[sc_in.query],
                     node_a |-> node_a, node_b |-> node_b, a |-> adj.a, b |-> adj.b,
                     final_a |-> final_a, final_b |-> final_b,
                     results |-> FilterSortPrune(<<node_a, node_b>>, <<final_a, final_b>>,
                                                 sc_in.threshold)]
    /\ UNCHANGED <<sc_in, flt_in, flt_out>>
    /\ UNCHANGED <<clsVars, treeVars, beVars, raceVars, embVars, refVars>>

ScoreNext == ScoreCall

SpecScore == ScoreInit /\ [][ScoreNext]_vars

(***************************************************************************)
(* SpecFilter: lines 275-301 of search_hs_codes on large score arrays: the *)
(* adaptive threshold, the threshold filter, the sort and the pruning.     *)
(***************************************************************************)
\* how many leaves carry each of the three scores of an array
FilterCounts == {0, 5, 10, 11, 20, 21}
FilterThresholds == {0, similarity_threshold, 70, 90}

\* n copies of v
Repeat(v, n) == [i \in 1..n |-> v]

\* the adjusted similarity array: n1 leaves at 0.70, n2 at 0.95, n3 at 0.80 and
\* one at 0.50, in leaf order
FilterArray(n1, n2, n3) == Repeat(70, n1) \o Repeat(95, n2) \o Repeat(80, n3) \o <<50>>

\* leaf i of the taxonomy behind the array
FilterNodes(n) == [i \in 1..n |-> Node(i, <<"l", "e", "a", "f">>, <<>>)]

FilterInit ==
    /\ flt_in \in {[similarities |-> FilterArray(n1, n2, n3), base_threshold |-> t] :
                      n1 \in FilterCounts, n2 \in FilterCounts, n3 \in FilterCounts,
                      t \in FilterThresholds}
    /\ flt_out = NotComputed
    /\ sc_in = <<>>
    /\ sc_out = NotComputed
    /\ ClsIdle
    /\ TreeIdle
    /\ BackendIdle
    /\ RaceIdle
    /\ EmbIdle
    /\ RefIdle

\* lines 275-301
FilterCall ==
    /\ ~flt_out.computed
    /\ LET adjusted_threshold == get_adaptive_threshold(flt_in.similarities, flt_in.base_threshold)
           sorted == ThresholdFilterSort(FilterNodes(Len(flt_in.similarities)),
                                         flt_in.similarities, adjusted_threshold)
       IN flt_out' = [computed |-> TRUE, adjusted_threshold |-> adjusted_threshold,
                      sorted |-> sorted, results |-> apply_harsh_filtering(sorted)]
    /\ UNCHANGED <<sc_in, sc_out, flt_in>>
    /\ UNCHANGED <<clsVars, treeVars, beVars, raceVars, embVars, refVars>>

FilterNext == FilterCall

SpecFilter == FilterInit /\ [][FilterNext]_vars

(***************************************************************************)
(* Taxonomy index: HSCodeSemanticSearch._build_tree / _extract_leaf_nodes  *)
(* A node is the number of the row it was built from; rows[i] is the       *)
(* LEVEL of row i.                                                         *)
(***************************************************************************)
MaxRows == 4
MaxLevel == 3

RECURSIVE PopStack_strict(_, _, _)
\* mutant: only strictly deeper entries are popped, so a row of equal level
\* stays on the stack and becomes the parent of its sibling
PopStack_strict(stk, lvls, level) ==
    IF Len(stk) > 0 /\ lvls[stk[Len(stk)]] > level
    THEN PopStack_strict(SubSeq(stk, 1, Len(stk) - 1), lvls, level)
    ELSE stk

\* mutant: at most one entry is popped (an if in place of the while)
PopStack_once(stk, lvls, level) ==
    IF Len(stk) > 0 /\ lvls[stk[Len(stk)]] >= level
    THEN SubSeq(stk, 1, Len(stk) - 1)
    ELSE stk

RECURSIVE PopStack(_, _, _)
\* while stack and stack[-1].level >= level: stack.pop()
PopStack(stk, lvls, level) ==
    IF Len(stk) > 0 /\ lvls[stk[Len(stk)]] >= level
    THEN PopStack(SubSeq(stk, 1, Len(stk) - 1), lvls, level)
    ELSE stk

\* HSCodeNode.is_leaf
is_leaf(node, ch) == Len(ch[node]) = 0

RECURSIVE traverse(_, _)
RECURSIVE traverse_children(_, _)
\* traverse(node): the leaves appended while visiting node, in append order
traverse(node, ch) ==
    (IF is_leaf(node, ch) THEN <<node>> ELSE <<>>) \o traverse_children(ch[node], ch)

\* for child in node.children: traverse(child)
traverse_children(nodes, ch) ==
    IF nodes = <<>> THEN <<>>
    ELSE traverse(Head(nodes), ch) \o traverse_children(Tail(nodes), ch)

TreeInit ==
    /\ rows \in UNION {[1..n -> 1..MaxLevel] : n \in 0..MaxRows}
    /\ next_row = 1
    /\ stack = <<>>
    /\ parent = [i \in 1..Len(rows) |-> 0]
    /\ children = [i \in 1..Len(rows) |-> <<>>]
    /\ tree_data = <<>>
    /\ leaf_nodes = <<>>
    /\ tree_pc = "build"
    /\ ClsIdle
    /\ BackendIdle
    /\ RaceIdle
    /\ EmbIdle
    /\ SearchIdle
    /\ RefIdle

\* one turn of the for loop of _build_tree
BuildTreeRow ==
    /\ tree_pc = "build"
    /\ next_row <= Len(rows)
    /\ LET node == next_row
           popped == PopStack(stack, rows, rows[node])
       IN /\ IF popped = <<>>
             THEN /\ tree_data' = Append(tree_data, node)
                  /\ UNCHANGED <<parent, children>>
             ELSE LET top == popped[Len(popped)]
                  IN /\ parent' = [parent EXCEPT ![node] = top]
                     /\ children' = [children EXCEPT ![top] = Append(@, node)]
                     /\ UNCHANGED tree_data
          /\ stack' = Append(popped, node)
    /\ next_row' = next_row + 1
    /\ UNCHANGED <<rows, leaf_nodes, tree_pc>>
    /\ UNCHANGED <<clsVars, beVars, raceVars, embVars, searchVars, refVars>>

\* _extract_leaf_nodes, called by load_data once _build_tree has returned
ExtractLeafNodes ==
    /\ tree_pc = "build"
    /\ next_row > Len(rows)
    /\ leaf_nodes' = traverse_children(tree_data, children)
    /\ tree_pc' = "loaded"
    /\ UNCHANGED <<rows, next_row, stack, parent, children, tree_data>>
    /\ UNCHANGED <<clsVars, beVars, raceVars, embVars, searchVars, refVars>>

TreeNext == BuildTreeRow \/ ExtractLeafNodes

SpecTree == TreeInit /\ [][TreeNext]_vars

(***************************************************************************)
(* Claims about check_convergence (checked under SpecConv)                 *)
(***************************************************************************)
ScoreAt(cands, i) == cands[i].similarity_score
CodeSet(cands) == {cands[i].code : i \in 1..(IF Len(cands) < 3 THEN Len(cands) ELSE 3)}

OtherConditionHolds ==
    \/ (Len(current_candidates) = 1 /\ ScoreAt(current_candidates, 1) > 90)
    \/ (Len(current_candidates) = 2 /\ ScoreAt(current_candidates, 1) > 85
          /\ ScoreAt(current_candidates, 1) - ScoreAt(current_candidates, 2) > 20)
    \/ (Len(current_candidates) >= 3 /\ Len(prev_candidates) >= 3 /\ Len(qa_history) >= 3
          /\ ScoreAt(current_candidates, 1) > 75
          /\ \A i \in 1..3 : current_candidates[i].code = prev_candidates[i].code)

\* C2: check_convergence returns true whenever iteration >= max_iterations,
\* whatever the candidates, previous candidates and Q&A history are; at
\* iteration = max_iterations - 1 it returns false when no other convergence
\* condition (single candidate > 0.9, two with clear winner, stable top-3) holds.
C2_MaxIterationsBoundary ==
    pc = "conv_returned" =>
        /\ (iteration >= max_iterations => converged = TRUE)
        /\ (iteration = max_iterations - 1 /\ ~OtherConditionHolds => converged = FALSE)

C2_Witness ==
    /\ pc = "conv_returned"
    /\ iteration = max_iterations
    /\ Len(current_candidates) = 2
    /\ ~OtherConditionHolds
    /\ converged = TRUE

C6_SameSetConverges ==
    (/\ pc = "conv_returned"
     /\ Len(current_candidates) >= 3
     /\ Len(prev_candidates) >= 3
     /\ Len(qa_history) >= 3
     /\ ScoreAt(current_candidates, 1) > 75
     /\ CodeSet(current_candidates) = CodeSet(prev_candidates))
        => converged = TRUE

\* C6 (amended): at least 3 current candidates, at least 3 Q&A entries, top
\* score > 0.75 and previous candidates whose top-3 codes are the same codes in
\* the same order as the current top-3 imply convergence; with at least 3
\* candidates, fewer than 3 Q&A entries and iteration < max_iterations the
\* result is false.
C6_StableTop3 ==
    pc = "conv_returned" =>
        /\ (/\ Len(current_candidates) >= 3
            /\ Len(prev_candidates) >= 3
            /\ Len(qa_history) >= 3
            /\ ScoreAt(current_candidates, 1) > 75
            /\ \A i \in 1..3 : current_candidates[i].code = prev_candidates[i].code)
              => converged = TRUE
        /\ (/\ Len(current_candidates) >= 3
            /\ Len(qa_history) < 3
            /\ iteration < max_iterations)
              => converged = FALSE

C6_Witness ==
    /\ pc = "conv_returned"
    /\ iteration = 4
    /\ Len(current_candidates) >= 3
    /\ Len(prev_candidates) >= 3
    /\ Len(qa_history) = 3
    /\ ScoreAt(current_candidates, 1) > 75
    /\ \A i \in 1..3 : current_candidates[i].code = prev_candidates[i].code
    /\ converged = TRUE

(***************************************************************************)
(* Claims about the taxonomy index (checked under SpecTree)                *)
(***************************************************************************)
RECURSIVE RowsWithoutDeeperSuccessor(_, _)
\* the rows i..n, in row order, whose following row is absent or not deeper
RowsWithoutDeeperSuccessor(lvls, i) ==
    IF i > Len(lvls) THEN <<>>
    ELSE (IF i = Len(lvls) \/ lvls[i + 1] <= lvls[i] THEN <<i>> ELSE <<>>)
         \o RowsWithoutDeeperSuccessor(lvls, i + 1)

\* C9: after load, leaf_nodes is exactly the subsequence of the input rows, in
\* row order, whose following row is absent or has a level less than or equal
\* to their own (so the leaf count equals this recount), for every row sequence.
C9_LeavesAreRowsWithoutDeeperSuccessor ==
    tree_pc = "loaded" => leaf_nodes = RowsWithoutDeeperSuccessor(rows, 1)

C9_Witness ==
    /\ tree_pc = "loaded"
    /\ rows = <<2, 1, 2, 2>>
    /\ leaf_nodes = <<1, 3, 4>>
    /\ tree_data = <<1, 2>>

\* the nearest row before i whose level is strictly smaller than row i's; 0 when none
NearestShallowerBefore(lvls, i) ==
    IF \E j \in 1..(i - 1) : lvls[j] < lvls[i]
    THEN CHOOSE j \in 1..(i - 1) :
            /\ lvls[j] < lvls[i]
            /\ \A k \in (j + 1)..(i - 1) : lvls[k] >= lvls[i]
    ELSE 0

\* how often node occurs in a sequence of nodes
Occurrences(node, nodes) == Cardinality({k \in 1..Len(nodes) : nodes[k] = node})

\* C23: every row built so far has as parent the nearest preceding row of
\* strictly smaller level and is a root when there is none; a child is deeper
\* than its parent; every built row occurs exactly once in the forest (among
\* the roots or among the children of its parent) and _build_tree processes
\* every row sequence to its end.
C23_ParentIsNearestShallowerRow ==
    /\ \A i \in 1..(next_row - 1) :
          /\ parent[i] = NearestShallowerBefore(rows, i)
          /\ parent[i] # 0 => rows[i] > rows[parent[i]]
          /\ Occurrences(i, tree_data) = (IF parent[i] = 0 THEN 1 ELSE 0)
          /\ \A j \in 1..Len(rows) :
                Occurrences(i, children[j]) = (IF parent[i] = j THEN 1 ELSE 0)
    /\ \A i \in next_row..Len(rows) :
          parent[i] = 0 /\ Occurrences(i, tree_data) = 0
    /\ tree_pc = "loaded" => next_row = Len(rows) + 1

\* non-monotonic levels: row 2 jumps two levels down, row 3 is a second root,
\* row 4 skips back over row 3's level
C23_Witness ==
    /\ tree_pc = "loaded"
    /\ rows = <<1, 3, 1, 2>>
    /\ parent = <<0, 1, 0, 3>>
    /\ tree_data = <<1, 3>>

(***************************************************************************)
(* Claims about classify_product (checked under SpecClassify)              *)
(***************************************************************************)
ConvergenceChecked == pc \in {"final", "generate"} /\ turn_log.conv_checks = 1

\* C1: check_convergence returns false for every state with iteration < 2,
\* whatever the number of candidates and however high their scores: no
\* convergence is reported on the first loop turn.
C1_NoConvergenceOnFirstTurn ==
    (ConvergenceChecked /\ iteration < 2) => converged = FALSE

\* C3: when the generator emits a Conclusion, classify_product returns a
\* candidate for it only if the turn's current candidates pass the relevance
\* pre-check.
C3_ConclusionOnlyOnRelevantCandidates ==
    (pc = "done" /\ claude_response.type = "conclusion" /\ result.status = "candidate")
        => candidates_seem_relevant(product_description, current_candidates)

\* C7: classify_product returns None exactly when a loop turn ends with an empty
\* candidate list; in that turn no convergence check is made, no question is
\* generated and no Q&A entry is appended; a turn with a non-empty candidate
\* list never ends the session with None.
C7_NoneExactlyOnEmptyTurn ==
    /\ (pc = "done" => ((result.status = "None") <=> (current_candidates = <<>>)))
    /\ (result.status = "None" =>
            turn_log.conv_checks = 0 /\ turn_log.questions = 0 /\ turn_log.answers = 0)
    /\ (pc \in {"generate", "await_answer", "final"} => current_candidates # <<>>)

C7_Witness ==
    /\ pc = "done"
    /\ result.status = "None"
    /\ iteration = 3
    /\ Len(qa_history) = 2
    /\ prev_candidates # <<>>
    /\ turn_log.searches = 1

(***************************************************************************)
(* Claims about the session order (checked under SpecBackend)              *)
(***************************************************************************)
\* C8: every Q&A entry of qa_history answers a question the session's generator
\* produced: no answer is recorded for a question the session did not generate
\* (classify_product loop and backend session driven through submit_answer).
C8_AnswersOnlyToGeneratedQuestions ==
    \A i \in 1..Len(qa_history) : qa_history[i].question \in generated

(***************************************************************************)
(* Claims about concurrent searches (checked under SpecRace)               *)
(***************************************************************************)
\* C4: under every interleaving of two concurrent search_hs_codes calls, each
\* call completes and returns the list it returns when it runs alone, i.e. its
\* Q&A-contradiction penalties come from its own qa_history only.
C4_SearchIsolatedFromOtherCalls ==
    \A t \in RaceThreads :
        /\ th_pc[t] # "raised"
        /\ (th_pc[t] = "returned" => th_results[t] = SoloResult(th_qa_history[t]))

(***************************************************************************)
(* Claims about the embedding cache (checked under SpecEmbed)              *)
(***************************************************************************)
\* C10: after compute_embeddings returns successfully the matrix has exactly
\* len(leaf_nodes) rows and row i was computed from leaf_nodes[i].
C10_RowsMatchLeafNodes ==
    emb_status = "returned" =>
        /\ embeddings.loaded
        /\ Len(embeddings.rows) = Len(leaf_nodes)
        /\ \A i \in 1..Len(leaf_nodes) : embeddings.rows[i] = leaf_nodes[i]

\* a step that is a call of compute_embeddings
ComputeStep == emb_status' # "none" /\ emb_call' # NoCall

C12_DefaultNameFindsEarlierCache ==
    [][(/\ ComputeStep
        /\ ~emb_call'.use_cached_only /\ ~emb_call'.force_recompute
        /\ emb_call'.embedding_file = NoFile
        /\ \E sd \in 1..MaxHashSeeds : files[DefaultFile(leaf_nodes, sd)].kind = "matrix")
          => (~emb_call'.encoded /\ files' = files)]_vars

(***************************************************************************)
(* Claims about LLM failures (checked under SpecClassify)                  *)
(***************************************************************************)
\* C20: an exception raised by the LLM call inside generate_smart_query or
\* generate_question is caught inside the method: generate_smart_query returns
\* the rule-based fallback query, generate_question returns the fixed generic
\* question of type "question"; no exception reaches classify_product and the
\* turn goes on (to the search, respectively to the user's answer).
C20_LLMFailuresAreAbsorbed ==
    /\ result.status # "exception"
    /\ \A i \in 1..Len(turn_log.queries) :
          turn_log.queries[i].raised =>
              /\ turn_log.queries[i].query = fallback_query_generation(product_description)
              /\ turn_log.searches >= 1
    /\ turn_log.question_raised =>
          /\ claude_response = Response("question", Q_exception_fallback)
          /\ pc \in {"await_answer", "loop"}
          /\ claude_response.content \in generated

\* a turn in which both LLM calls raised and which still reached the user's answer
C20_Witness ==
    /\ pc = "loop" /\ turn_log.answers = 1
    /\ turn_log.question_raised
    /\ turn_log.queries # <<>> /\ turn_log.queries[1].raised
    /\ qa_history[Len(qa_history)].question = Q_exception_fallback

(***************************************************************************)
(* Claims about the scoring of one search (checked under SpecScore)        *)
(***************************************************************************)
\* the spec's closed form of the final score
SpecFinalScore(base, adj) ==
    Max(0, Min(100, base + Min(adj.keyword_boost, 40) - (adj.keyword_penalty + adj.qa_penalty)))

\* C13: the score of every leaf is clamp(base + min(keywordBoost, 0.4)
\* - (negativePenalty + qaContradictionPenalty), 0, 1), and every returned
\* candidate carries the score of its leaf, which lies in [0, 1].
C13_FinalScoreIsClampedSum ==
    sc_out.computed =>
        /\ sc_out.final_a = SpecFinalScore(sc_in.base, sc_out.a)
        /\ sc_out.final_b = SpecFinalScore(sc_in.base, sc_out.b)
        /\ \A i \in 1..Len(sc_out.results) :
              /\ sc_out.results[i].similarity_score >= 0
              /\ sc_out.results[i].similarity_score <= 100
              /\ sc_out.results[i].similarity_score =
                    IF sc_out.results[i].code = sc_out.node_a.code
                    THEN sc_out.final_a ELSE sc_out.final_b

\* the boost cap and both ends of the clamp act: leaf b has boost 0.5 and base 1.0
\* (raw 1.4), leaf a of another call would fall below 0; here a is 0.85 and both return
C13_Witness ==
    /\ sc_out.computed
    /\ sc_out.b.keyword_boost > 40 /\ sc_in.base = 100 /\ sc_out.final_b = 100
    /\ sc_out.a.keyword_penalty > 0 /\ sc_out.final_a = 85
    /\ Len(sc_out.results) = 2

\* C17: when leaf a's distinguishing word is negated in the query and leaf b's
\* is a positive query word, leaf a's final score is strictly lower than leaf
\* b's, for every base similarity.
C17_NegatedWordRanksLower ==
    (/\ sc_out.computed
     /\ sc_in.pair[1] # <<>> /\ sc_in.pair[2] # <<>>
     /\ Lower(sc_in.pair[1]) \in Range(sc_out.query_words.negative)
     /\ Lower(sc_in.pair[2]) \in Range(sc_out.query_words.positive))
        => sc_out.final_a < sc_out.final_b

\* C18: when the query holds a positive technology word and leaf a is leaf b
\* plus one of that word's listed opposites, leaf a's final score is strictly
\* lower than leaf b's.
C18_OppositeTermLowersScore ==
    (/\ sc_out.computed
     /\ sc_in.pair[1] # <<>> /\ sc_in.pair[2] = <<>>
     /\ \E k \in 1..Len(sc_out.query_words.contradictions) :
           Lower(sc_in.pair[1]) \in Range(OppositesOf(sc_out.query_words.contradictions[k])))
        => sc_out.final_a < sc_out.final_b

\* the subject terms of a question: the terms of the penalty rules' vocabulary
\* that are words of the question, punctuation aside
SubjectTerms(question) ==
    {term \in important_terms :
        term \in {Strip(w, question_punctuation) : w \in Range(Split(Lower(question)))}}

\* the history holds a yes/no question answered "no" whose subject term occurs
\* in the node's label or path
VetoedByAnswer(history, node) ==
    \E i \in 1..Len(history) :
        /\ \E marker \in {<<"i","s"," ","t","h","i","s">>, <<"a","r","e"," ","t","h","e","s","e">>, <<"d","o"," ","y","o","u"," ","h","a","v","e">>} :
              IsSubstr(marker, Lower(history[i].question))
        /\ Lower(history[i].answer) = <<"n","o">>
        /\ \E term \in SubjectTerms(history[i].question) :
              \/ IsSubstr(term, Lower(node.name))
              \/ IsSubstr(term, Lower(get_full_path(node)))

\* C19: a candidate that contradicts a "no" answer gets a Q&A contradiction
\* penalty of at least 0.8, so its final score is at most max(0, base + 0.4 - 0.8).
C19_NoAnswerVetoesCandidate ==
    sc_out.computed =>
        /\ VetoedByAnswer(sc_in.history, sc_out.node_a) =>
              /\ sc_out.a.qa_penalty >= 80
              /\ sc_out.final_a <= Max(0, sc_in.base + 40 - 80)
        /\ VetoedByAnswer(sc_in.history, sc_out.node_b) =>
              /\ sc_out.b.qa_penalty >= 80
              /\ sc_out.final_b <= Max(0, sc_in.base + 40 - 80)

(***************************************************************************)
(* Claims about threshold, order and pruning (checked under SpecFilter)    *)
(***************************************************************************)
\* the number of leaves whose score is at least t, and strictly above t
CountAtLeast(t) ==
    Cardinality({i \in 1..Len(flt_in.similarities) : flt_in.similarities[i] >= t})
CountAbove(t) ==
    Cardinality({i \in 1..Len(flt_in.similarities) : flt_in.similarities[i] > t})

IsPrefixOf(a, b) == Len(a) <= Len(b) /\ a = SubSeq(b, 1, Len(a))

\* C14: the returned list is in non-increasing order of similarity_score, every
\* candidate in it scores at least the effective threshold of the call, and no
\* leaf appears twice.
C14_ResultsSortedAboveThreshold ==
    flt_out.computed =>
        /\ \A i \in 1..(Len(flt_out.results) - 1) :
              flt_out.results[i].similarity_score >= flt_out.results[i + 1].similarity_score
        /\ \A i \in 1..Len(flt_out.results) :
              /\ flt_out.results[i].similarity_score >= flt_out.adjusted_threshold
              /\ flt_out.results[i].similarity_score = flt_in.similarities[flt_out.results[i].code]
        /\ \A i, j \in 1..Len(flt_out.results) :
              flt_out.results[i].code = flt_out.results[j].code => i = j

\* a returned list with three different scores whose leaves were not in score order
C14_Witness ==
    /\ flt_out.computed
    /\ Len(flt_out.results) = 25
    /\ flt_out.results[1].similarity_score = 95
    /\ flt_out.results[25].similarity_score = 70
    /\ flt_in.similarities[1] = 70

\* C15 as stated: the thresholds count the nodes that exceed the base threshold.
C15_ThresholdByNodesExceedingBase ==
    flt_out.computed =>
        flt_out.adjusted_threshold =
            IF CountAbove(flt_in.base_threshold) > 50 THEN Min(80, flt_in.base_threshold + 20)
            ELSE IF CountAbove(flt_in.base_threshold) > 20 THEN Min(75, flt_in.base_threshold + 10)
            ELSE flt_in.base_threshold

\* C15 amended: the thresholds count the nodes that score at least the base
\* threshold: more than 50 give base + 0.2 capped at 0.8, more than 20 give
\* base + 0.1 capped at 0.75, otherwise the base; and the number of results is
\* at most the number of nodes scoring at least the effective threshold.
C15_ThresholdByNodesAtLeastBase ==
    flt_out.computed =>
        /\ flt_out.adjusted_threshold =
              IF CountAtLeast(flt_in.base_threshold) > 50 THEN Min(80, flt_in.base_threshold + 20)
              ELSE IF CountAtLeast(flt_in.base_threshold) > 20
              THEN Min(75, flt_in.base_threshold + 10)
              ELSE flt_in.base_threshold
        /\ Len(flt_out.results) <= CountAtLeast(flt_out.adjusted_threshold)
        /\ (CountAtLeast(60) > 50 /\ flt_in.base_threshold = 60) =>
              /\ flt_out.adjusted_threshold = 80
              /\ Len(flt_out.results) <= CountAtLeast(80)

\* 53 nodes at or above base 0.6 give threshold 0.8; the 21 nodes at 0.70 are dropped
C15_Witness ==
    /\ flt_out.computed
    /\ flt_in.base_threshold = 60 /\ CountAtLeast(60) = 53
    /\ flt_out.adjusted_threshold = 80
    /\ Len(flt_out.sorted) = 32 /\ Len(flt_out.results) = 20

\* C16: pruning of the sorted, filtered list: more than 30 results keep those
\* within 0.15 of the top score, at most 20; 11 to 30 results keep at most the
\* first 25; 10 or fewer stay unchanged; the output is a prefix of the input and
\* has at most 25 entries.
C16_HarshPruning ==
    flt_out.computed =>
        LET sorted == flt_out.sorted
            results == flt_out.results
            in_band == {i \in 1..Len(sorted) :
                           sorted[i].similarity_score >= sorted[1].similarity_score - 15}
        IN /\ IsPrefixOf(results, sorted)
           /\ Len(results) <= 25
           /\ Len(sorted) > 30 => Len(results) = Min(20, Cardinality(in_band))
           /\ (Len(sorted) > 10 /\ Len(sorted) <= 30) => Len(results) = Min(25, Len(sorted))
           /\ Len(sorted) <= 10 => results = sorted

\* 35 results of which 15 lie within 0.15 of the top score, the last of them exactly
\* 0.15 below it: the band, not the cap, prunes
C16_Witness ==
    /\ flt_out.computed
    /\ Len(flt_out.sorted) = 35
    /\ Len(flt_out.results) = 15
    /\ flt_out.results[15].similarity_score = flt_out.sorted[1].similarity_score - 15
    /\ flt_out.sorted[16].similarity_score = 70

\* C28: the effective threshold is never lower than the base threshold passed
\* in, so no candidate below the caller's threshold is returned.
C28_ThresholdOnlyRaised ==
    flt_out.computed =>
        /\ flt_out.adjusted_threshold >= flt_in.base_threshold
        /\ \A i \in 1..Len(flt_out.results) :
              flt_out.results[i].similarity_score >= flt_in.base_threshold

(***************************************************************************)
(* Claims about boost tiers and contradiction triggers (SpecScore)         *)
(***************************************************************************)
\* the words of a node's label and path
NodeWords(node) ==
    Range(Split(Lower(node.name))) \cup Range(Split(Lower(get_full_path(node))))

\* some listed opposite of a positive technology word of the query is a word of the node
NamesAnOpposite(query_words, node) ==
    \E k \in 1..Len(query_words.contradictions) :
        \E j \in 1..Len(OppositesOf(query_words.contradictions[k])) :
            OppositesOf(query_words.contradictions[k])[j] \in NodeWords(node)

\* C29: a candidate whose label and path hold none of the listed opposites of
\* the query's technology words as a word of its own gets no contradiction
\* penalty (the query has no negated word, so the whole negative penalty is
\* the contradiction penalty).
C29_PenaltyOnlyForOpposites ==
    (sc_out.computed /\ sc_out.query_words.negative = <<>>) =>
        /\ ~NamesAnOpposite(sc_out.query_words, sc_out.node_a) => sc_out.a.keyword_penalty = 0
        /\ ~NamesAnOpposite(sc_out.query_words, sc_out.node_b) => sc_out.b.keyword_penalty = 0

RECURSIVE PositiveQueryWords(_, _)
\* the positive words of the query as typed, without their generated variants
PositiveQueryWords(words, i) ==
    IF i > Len(words) THEN <<>>
    ELSE LET word == CleanWord(words[i])
         IN IF Len(word) < 2 \/ (i > 1 /\ words[i - 1] \in negative_indicators)
            THEN PositiveQueryWords(words, i + 1)
            ELSE <<word>> \o PositiveQueryWords(words, i + 1)

\* the boost of the tier table: one contribution per positive query word, a
\* word and its plural/singular variants being one match
TierBoost(query, node) ==
    LET words == PositiveQueryWords(Split(Lower(query)), 1)
        node_text == Lower(node.name)
        node_path == Lower(get_full_path(node))
        forms(word) == {word} \cup Range(get_plural_forms(word))
    IN SumSeq([k \in 1..Len(words) |->
           IF Len(words[k]) <= 2 THEN 0
           ELSE IF \E f \in forms(words[k]) : IsSubstr(f, node_text) THEN 25
           ELSE IF \E f \in forms(words[k]) : IsSubstr(f, node_path) THEN 15
           ELSE 0])

TierBoostTable ==
    [q \in ScoreQueries |-> [pair \in LabelPairs |-> [anc \in ScoreAncestors |->
        [a |-> TierBoost(q, NodeA(pair, anc)), b |-> TierBoost(q, NodeB(pair, anc))]]]]

\* C25: every positive query word, its variants counting as one match, adds
\* 0.25 when found in the label and 0.15 when found only in the path (a partial
\* match of a label word is a match in the label); the applied sum is at most 0.4.
C25_BoostTiersPerQueryWord ==
    sc_out.computed =>
        LET tier == TierBoostTable[sc_in.query][sc_in.pair][sc_in.ancestors]
        IN /\ sc_out.a.keyword_boost = tier.a
           /\ sc_out.b.keyword_boost = tier.b
           /\ sc_out.final_a <= Max(0, sc_in.base + 40)

(***************************************************************************)
(* Claims about the classify_product loop (checked under SpecClassify)     *)
(***************************************************************************)
\* C21: a question that generate_question returns from an LLM reply is never
\* similar to a question already in qa_history, the substituted fallback probe
\* included.
C21_ReturnedQuestionIsNew ==
    (pc = "await_answer" /\ ~turn_log.question_raised) =>
        \A i \in 1..Len(qa_history) :
            ~is_duplicate(claude_response.content, qa_history[i].question)

\* the relevance pre-check as the two ratio rules state it
RatioRelevance(description, candidates) ==
    LET product_lower == Lower(description)
        k == MatchedCategory(product_lower)
        top == 1..Min(5, Len(candidates))
        with_prefix == {i \in top : candidate_chapter(candidates[i]) \in product_indicators[k].chapters}
        with_overlap == {i \in top : HasWordMatch(product_words(product_lower), candidates[i])}
    IN /\ candidates # <<>>
       /\ IF k # 0
          THEN 10 * Cardinality(with_prefix) >= 4 * Cardinality(top)
          ELSE 10 * Cardinality(with_overlap) >= 3 * Cardinality(top)

RatioRelevantPairs ==
    {pair \in Descriptions \X SearchResults : RatioRelevance(pair[1], pair[2])}

\* C22: the relevance pre-check is true exactly when the description matches a
\* category and at least 40% of the top (at most 5) candidates have an expected
\* code prefix, or no category matches and at least 30% of them show lexical
\* overlap with the description; it is false for an empty candidate list.
C22_RelevanceIsPrefixOrOverlapRatio ==
    pc = "searched" =>
        (seem_relevant(product_description, current_candidates)
            <=> <<product_description, current_candidates>> \in RatioRelevantPairs)

\* C24: in one loop turn the query is synthesized at most twice and the search
\* run at most twice; the second synthesis happens exactly when the first
\* result is non-empty and irrelevant, the second search exactly when the retry
\* query differs; the retry result becomes the turn's candidates only if it is
\* non-empty and relevant, otherwise the first result is kept.
C24_SingleRetryPerTurn ==
    pc = "searched" =>
        /\ turn_log.synth \in {1, 2} /\ turn_log.searches \in {1, 2}
        /\ Len(turn_log.queries) = turn_log.synth
        /\ turn_log.synth = 2 <=>
              (turn_log.first # <<>> /\ ~seem_relevant(product_description, turn_log.first))
        /\ turn_log.searches = 2 <=>
              (turn_log.synth = 2 /\ turn_log.queries[2].query # turn_log.queries[1].query)
        /\ current_candidates =
              IF /\ turn_log.searches = 2
                 /\ turn_log.retry # <<>>
                 /\ seem_relevant(product_description, turn_log.retry)
              THEN turn_log.retry
              ELSE turn_log.first

\* a retry that found other, non-empty but still irrelevant candidates: the first
\* result is kept
C24_Witness ==
    /\ pc = "searched"
    /\ turn_log.searches = 2
    /\ turn_log.retry # <<>> /\ turn_log.retry # turn_log.first
    /\ current_candidates = turn_log.first

\* C27: iteration changes only at the top of a loop turn, by exactly 1;
\* qa_history changes only by one appended entry; a turn that comes back to
\* the top of the loop has appended exactly one entry; so every call of
\* check_convergence sees len(qa_history) = iteration - 1, and a convergence
\* on three or more candidates (the stable-top-3 rule) comes at iteration 4 or later.
C27_CountersGrowInStep ==
    [][/\ iteration' = (IF pc = "loop" THEN iteration + 1 ELSE iteration)
       /\ \/ qa_history' = qa_history
          \/ /\ Len(qa_history') = Len(qa_history) + 1
             /\ SubSeq(qa_history', 1, Len(qa_history)) = qa_history
       /\ pc' = "loop" => Len(qa_history') = iteration'
       /\ (pc = "searched" /\ pc' \in {"final", "generate"}) =>
             /\ Len(qa_history) = iteration - 1
             /\ (converged' /\ Len(current_candidates) >= 3) => iteration >= 4
      ]_vars

\* the stable-top-3 rule firing at its earliest: iteration 4 with 3 Q&A entries
C27_Witness ==
    /\ pc = "final" /\ converged = TRUE
    /\ iteration = 4 /\ Len(qa_history) = 3
    /\ StableTop3(current_candidates, prev_candidates, qa_history)

\* a measure of the work left in classify_product: the turns that may still
\* start, then the position inside the current turn
LoopRank ==
    5 * (max_iterations - iteration)
    + (CASE pc = "searched" -> 3
         [] pc \in {"generate", "final"} -> 2
         [] pc = "await_answer" -> 1
         [] OTHER -> 0)

\* C26: the loop of classify_product always ends: every step strictly lowers a
\* measure that never goes below 0, so no run is infinite; the loop performs at
\* most max_iterations turns (one first-search each) and appends at most
\* max_iterations - 1 Q&A entries.
C26_LoopEndsWithinMaxIterations ==
    [][/\ LoopRank' < LoopRank
       /\ LoopRank' >= 0
       /\ iteration' <= max_iterations
       /\ Len(qa_history') <= max_iterations - 1
       /\ pc' = "loop" => iteration' < max_iterations
      ]_vars

\* the cut-off itself: the sixth turn converges with five Q&A entries and no
\* other rule holding
C26_Witness ==
    /\ pc = "final" /\ converged = TRUE
    /\ iteration = max_iterations /\ Len(qa_history) = max_iterations - 1
    /\ ~StableTop3(current_candidates, prev_candidates, qa_history)
    /\ Len(current_candidates) >= 3

(***************************************************************************)
(* Claims about the two drivers of the loop (checked under SpecRefine)     *)
(***************************************************************************)
\* C30: with the same search results and the same answers, the backend session
\* reports converged = true after exactly as many answered questions as
\* classify_product needs to converge, and both make their convergence checks
\* with the same iteration count and Q&A count.
C30_SessionConvergesLikeClassifyProduct ==
    (/\ ref_be.started
     /\ ref_cls.status \in {"asking", "converged"}
     /\ Len(ref_cls.qa_history) = Len(ref_be.qa_history))
        => /\ (ref_cls.status = "converged") <=> ref_be.converged
           /\ ref_cls.iteration = ref_be.iteration

\* the cut-off: classify_product has stopped at max_iterations with five
\* answers while the session, after the same five answers and searches, has not
RefineCutoffDiffers ==
    /\ ref_be.started
    /\ ref_cls.status = "converged" /\ ref_cls.iteration = max_iterations
    /\ Len(ref_cls.qa_history) = max_iterations - 1
    /\ Len(ref_be.qa_history) = max_iterations - 1
    /\ ref_be.current_candidates = ref_cls.current_candidates
    /\ ~ref_be.converged

====
